---- MODULE Spec2Model ----
(***************************************************************************)
(* Resilience core of NAT/app/services/infrastructure.py:                  *)
(*   CircuitBreaker  (call / _on_success / _on_failure, shared by          *)
(*                    concurrent callers, every access under self.lock)    *)
(*   TokenBucket     (acquire / wait_and_acquire / get_available)          *)
(*   RateLimiter     (acquire / wait_for, one bucket per configured name)  *)
(*   ReconciliationEngine (reconcile / _get_top_provenance)                *)
(*   ProvenanceTracker (add / get / clear, no lock)                        *)
(*   MetricsCollector  (record / get_stats under self.lock)                *)
(*   SchemaValidator   (validate)                                          *)
(* and the rate limiting of the fetch adapters of production_intelligence. *)
(* Time is a discrete clock `now` (one tick = one unit of time.time()).    *)
(* A thread's position inside a method is its program counter.             *)
(***************************************************************************)
EXTENDS Integers, Sequences, FiniteSets, TLC

\* ---------------------------------------------------------------- bounds
NumThreads == 2          \* concurrent callers of the shared breaker / bucket
MaxTicks == 4            \* clock ticks explored after the breaker's construction
MaxBucketTicks == 3      \* clock ticks explored after the bucket's construction
MaxFailures == 3         \* cap on the (otherwise unbounded) failure counter

\* CircuitBreaker constructor parameters (dataclass fields, small instances)
failure_threshold == 2
recovery_timeout == 1
half_open_success_threshold == 2

\* TokenBucket constructor parameters and the granularity of its float fields:
\* `tokens` is held in units of 1/TokenUnit token, `rate` in units per tick
TokenUnit == 2
rate == 1
capacity == 2
MaxAcquire == 2          \* acquire(tokens=n) is called with n in 1..MaxAcquire
MaxTimeout == 1          \* wait_and_acquire(timeout=d) with d in 0..MaxTimeout
MaxWaiters == 1          \* callers inside wait_and_acquire at the same time
MaxLimiterTicks == 2     \* clock ticks explored while the RateLimiter is called
MaxCandidates == 2       \* longest candidate list passed to reconcile
MaxWaitTicks == 1        \* clock ticks explored under the fair schedule
MaxLimiterCallers == 1   \* threads that call the RateLimiter
MaxWide == 3             \* longest list of full-mantissa values passed to reconcile
MaxOffset == 2           \* the full-mantissa values are 2^53 + 2 j, j in 0..MaxOffset
MaxAdders == 2           \* threads that call the ProvenanceTracker
MaxAdds == 3             \* calls of ProvenanceTracker.add in one behaviour
MaxRecorders == 2        \* threads that call the MetricsCollector
MaxRecords == 3          \* calls of MetricsCollector.record in one behaviour
MaxOdd == 2              \* keys in which a payload differs from the well-formed one
FetchTimeout == 1        \* the adapters' wait_for(timeout=30), in clock ticks

Threads == 1..NumThreads

\* time.time() at construction: far from the default last_failure_time = 0
StartTime == recovery_timeout + 1
MaxTime == StartTime + MaxTicks
MaxBucketTime == StartTime + MaxBucketTicks
MaxLimiterTime == StartTime + MaxLimiterTicks
MaxWaitTime == StartTime + MaxWaitTicks

\* CircuitState
CLOSED == "closed"
OPEN == "open"
HALF_OPEN == "half_open"
CircuitState == {CLOSED, OPEN, HALF_OPEN}

NoTime == 0 - 1

VARIABLES
    now,                 \* time.time()
    \* --- CircuitBreaker fields
    state,
    failures,
    successes,
    last_failure_time,
    \* --- one caller of CircuitBreaker.call per thread
    pc,                  \* position in call(): see CallPositions
    \* --- history of the breaker
    hoFail,              \* the most recent failure reported while HALF_OPEN:
                         \* [at |-> its time, succ |-> successes counted before it]
    prevState,           \* the state before the most recent change of state
    consecFailures,      \* failures reported since the last reported success
    \* --- TokenBucket fields
    tokens,              \* self.tokens, in units of 1/TokenUnit token
    last_update,
    \* --- one caller of the TokenBucket per thread
    tpc,                 \* position in wait_and_acquire: see BucketPositions
    w,                   \* wait_and_acquire's locals [n, start, timeout], and
                         \* whether this call has tried acquire yet
    \* --- history of the bucket
    granted,             \* tokens handed out since construction
    drainedAtStart,      \* TRUE once grants totalling capacity were made at StartTime
    \* --- RateLimiter
    rl_ret,              \* what the most recent RateLimiter call returned
    \* --- one call of ReconciliationEngine.reconcile
    metric_key,          \* its arguments
    candidates,
    result,              \* what it returned or raised: see NoResult, Returned, Raised
    \* --- ProvenanceTracker
    records,             \* self.records: per key, whether it is in the dict and its list
    pt_pc,               \* position of each thread in add(): see TrackerPositions
    pt_arg,              \* add's arguments and the list the thread holds
    \* --- history of the tracker
    pt_log,              \* per key, the records appended since the last clear()
    pt_got,              \* what the most recent get() returned
    pt_overlapped,       \* TRUE once a clear() ran while an add() was under way
    \* --- MetricsCollector
    metrics,             \* self.metrics: per name, whether it is in the dict and its entry
    lock,                \* the thread that holds self.lock, or NoThread
    mc_pc,               \* position of each thread in record(): see CollectorPositions
    mc_arg,              \* record's arguments
    \* --- history of the collector
    mc_log,              \* per name, the calls of record() that returned, in order
    mc_stats,            \* what the most recent get_stats() returned
    \* --- one call of SchemaValidator.validate
    sv_data,             \* its arguments
    sv_schema,
    sv_ret,              \* the pair it returned: see NoReturn
    \* --- the breaker's lock and RateLimiter.get_status
    cb_lock,             \* the thread that holds the breaker's self.lock, or NoThread
    status,              \* what the most recent get_status() returned for the source
    \* --- history of the breaker, continued
    opened_at,           \* the time of the most recent change of state to OPEN
    \* --- history of the callers of wait_and_acquire
    attempted,           \* per thread: its wait_and_acquire under way has called
                         \* acquire (line 181) at least once
    \* --- one caller of a fetch adapter per thread
    fa_pc,               \* position in the adapter: see FetchPositions
    fa_source,           \* the source it fetches from
    net                  \* the most recent request sent: its source, and what the
                         \* rate limiter had last returned when it went out

cbVars == <<state, failures, successes, last_failure_time, pc, hoFail, prevState, consecFailures>>
tbVars == <<tokens, last_update, tpc, w, granted, drainedAtStart>>
rlVars == <<rl_ret>>
reVars == <<metric_key, candidates, result>>
ptVars == <<records, pt_pc, pt_arg, pt_log, pt_got, pt_overlapped>>
mcVars == <<metrics, lock, mc_pc, mc_arg, mc_log, mc_stats>>
svVars == <<sv_data, sv_schema, sv_ret>>
lkVars == <<cb_lock, status>>
cbHist == <<opened_at>>
tbHist == <<attempted>>
faVars == <<fa_pc, fa_source, net>>
vars == <<now, cbVars, tbVars, rlVars, reVars, ptVars, mcVars, faVars, svVars, lkVars, cbHist, tbHist>>

\* Positions of a caller in call():
\*   idle       not inside call (never called yet)
\*   permitted  left the first `with self.lock` block, func not yet invoked
\*   running    inside func(*args, **kwargs)
\*   fn_ok      func returned, _on_success not yet entered
\*   fn_err     func raised, _on_failure not yet entered
\*   returned   call returned func's result
\*   reraised   call re-raised func's exception
\*   rejected   call raised CircuitBreakerOpenError
CallPositions ==
    {"idle", "permitted", "running", "fn_ok", "fn_err",
     "returned", "reraised", "rejected"}
OutsideCall == {"idle", "returned", "reraised", "rejected"}

\* time.time() - self.last_failure_time > self.recovery_timeout
RecoveryElapsed == now - last_failure_time > recovery_timeout

\* ------------------------------------------------------- CircuitBreaker
\* Variant of call(): the recovery test written `>=` instead of `>`
call_ge(t) ==
    /\ pc[t] \in OutsideCall
    /\ IF state = OPEN
       THEN IF now - last_failure_time >= recovery_timeout
            THEN /\ state' = HALF_OPEN
                 /\ prevState' = state
                 /\ pc' = [pc EXCEPT ![t] = "permitted"]
            ELSE /\ UNCHANGED <<state, prevState>>
                 /\ pc' = [pc EXCEPT ![t] = "rejected"]
       ELSE /\ UNCHANGED <<state, prevState>>
            /\ pc' = [pc EXCEPT ![t] = "permitted"]
    /\ UNCHANGED <<failures, successes, last_failure_time, hoFail, consecFailures>>
    /\ UNCHANGED <<now, tbVars>>

\* Variant of call(): the probe is let through without `state = HALF_OPEN`
call_no_half_open(t) ==
    /\ pc[t] \in OutsideCall
    /\ IF state = OPEN /\ ~RecoveryElapsed
       THEN pc' = [pc EXCEPT ![t] = "rejected"]
       ELSE pc' = [pc EXCEPT ![t] = "permitted"]
    /\ UNCHANGED <<state, prevState>>
    /\ UNCHANGED <<failures, successes, last_failure_time, hoFail, consecFailures>>
    /\ UNCHANGED <<now, tbVars>>

\* Variant of call(): the `else: raise CircuitBreakerOpenError` is missing
call_no_raise(t) ==
    /\ pc[t] \in OutsideCall
    /\ IF state = OPEN /\ RecoveryElapsed
       THEN /\ state' = HALF_OPEN
            /\ prevState' = state
       ELSE UNCHANGED <<state, prevState>>
    /\ pc' = [pc EXCEPT ![t] = "permitted"]
    /\ UNCHANGED <<failures, successes, last_failure_time, hoFail, consecFailures>>
    /\ UNCHANGED <<now, tbVars>>

\* call(), first block: `with self.lock:` state check (lines 103-109)
call(t) ==
    /\ pc[t] \in OutsideCall
    /\ IF state = OPEN
       THEN IF RecoveryElapsed
            THEN /\ state' = HALF_OPEN
                 /\ prevState' = state
                 /\ pc' = [pc EXCEPT ![t] = "permitted"]
            ELSE /\ UNCHANGED <<state, prevState>>
                 /\ pc' = [pc EXCEPT ![t] = "rejected"]
       ELSE /\ UNCHANGED <<state, prevState>>
            /\ pc' = [pc EXCEPT ![t] = "permitted"]
    /\ UNCHANGED <<failures, successes, last_failure_time, hoFail, consecFailures>>
    /\ UNCHANGED <<now, tbVars>>

\* call(), line 112: func is invoked, outside the lock
invoke_func(t) ==
    /\ pc[t] = "permitted"
    /\ pc' = [pc EXCEPT ![t] = "running"]
    /\ UNCHANGED <<state, failures, successes, last_failure_time, now, tbVars>>
    /\ UNCHANGED <<hoFail, prevState, consecFailures>>

\* func returns a result (line 112 completes normally)
func_returns(t) ==
    /\ pc[t] = "running"
    /\ pc' = [pc EXCEPT ![t] = "fn_ok"]
    /\ UNCHANGED <<state, failures, successes, last_failure_time, now, tbVars>>
    /\ UNCHANGED <<hoFail, prevState, consecFailures>>

\* func raises (line 115)
func_raises(t) ==
    /\ pc[t] = "running"
    /\ pc' = [pc EXCEPT ![t] = "fn_err"]
    /\ UNCHANGED <<state, failures, successes, last_failure_time, now, tbVars>>
    /\ UNCHANGED <<hoFail, prevState, consecFailures>>

\* Variant of _on_success: any success closes the breaker
on_success_closes(t) ==
    /\ pc[t] = "fn_ok"
    /\ IF state = HALF_OPEN /\ successes + 1 < half_open_success_threshold
       THEN /\ successes' = successes + 1
            /\ UNCHANGED <<state, prevState, failures>>
       ELSE /\ state' = CLOSED
            /\ prevState' = IF state = CLOSED THEN prevState ELSE state
            /\ failures' = 0
            /\ successes' = 0
    /\ pc' = [pc EXCEPT ![t] = "returned"]
    /\ consecFailures' = 0
    /\ UNCHANGED <<last_failure_time, hoFail, now, tbVars>>

\* Variant of _on_success: closing does not reset the failure counter
on_success_keeps_failures(t) ==
    /\ pc[t] = "fn_ok"
    /\ IF state = HALF_OPEN
       THEN IF successes + 1 >= half_open_success_threshold
            THEN /\ state' = CLOSED
                 /\ prevState' = state
                 /\ successes' = 0
                 /\ UNCHANGED failures
            ELSE /\ successes' = successes + 1
                 /\ UNCHANGED <<state, prevState, failures>>
       ELSE /\ failures' = 0
            /\ UNCHANGED <<state, prevState, successes>>
    /\ pc' = [pc EXCEPT ![t] = "returned"]
    /\ consecFailures' = 0
    /\ UNCHANGED <<last_failure_time, hoFail, now, tbVars>>

\* _on_success (lines 119-129), then `return result`
on_success(t) ==
    /\ pc[t] = "fn_ok"
    /\ IF state = HALF_OPEN
       THEN IF successes + 1 >= half_open_success_threshold
            THEN /\ state' = CLOSED
                 /\ prevState' = state
                 /\ failures' = 0
                 /\ successes' = 0
            ELSE /\ successes' = successes + 1
                 /\ UNCHANGED <<state, prevState, failures>>
       ELSE /\ failures' = 0
            /\ UNCHANGED <<state, prevState, successes>>
    /\ pc' = [pc EXCEPT ![t] = "returned"]
    /\ consecFailures' = 0
    /\ UNCHANGED <<last_failure_time, hoFail, now, tbVars>>

\* Variant of _on_failure: the threshold test written `>` instead of `>=`
on_failure_gt(t) ==
    /\ pc[t] = "fn_err"
    /\ failures < MaxFailures
    /\ failures' = failures + 1
    /\ last_failure_time' = now
    /\ IF state = HALF_OPEN
       THEN /\ state' = OPEN
            /\ prevState' = state
            /\ successes' = 0
            /\ hoFail' = [at |-> now, succ |-> successes]
       ELSE /\ IF failures + 1 > failure_threshold
               THEN /\ state' = OPEN
                    /\ prevState' = IF state = OPEN THEN prevState ELSE state
               ELSE UNCHANGED <<state, prevState>>
            /\ UNCHANGED <<successes, hoFail>>
    /\ pc' = [pc EXCEPT ![t] = "reraised"]
    /\ consecFailures' = consecFailures + 1
    /\ UNCHANGED <<now, tbVars>>

\* Variant of _on_failure: a failed probe leaves `successes` as it is
on_failure_keeps_successes(t) ==
    /\ pc[t] = "fn_err"
    /\ failures < MaxFailures
    /\ failures' = failures + 1
    /\ last_failure_time' = now
    /\ IF state = HALF_OPEN
       THEN /\ state' = OPEN
            /\ prevState' = state
            /\ hoFail' = [at |-> now, succ |-> successes]
            /\ UNCHANGED successes
       ELSE /\ IF failures + 1 >= failure_threshold
               THEN /\ state' = OPEN
                    /\ prevState' = IF state = OPEN THEN prevState ELSE state
               ELSE UNCHANGED <<state, prevState>>
            /\ UNCHANGED <<successes, hoFail>>
    /\ pc' = [pc EXCEPT ![t] = "reraised"]
    /\ consecFailures' = consecFailures + 1
    /\ UNCHANGED <<now, tbVars>>

\* Variant of _on_failure: a failed probe keeps the old last_failure_time
on_failure_stale_time(t) ==
    /\ pc[t] = "fn_err"
    /\ failures < MaxFailures
    /\ failures' = failures + 1
    /\ IF state = HALF_OPEN
       THEN /\ state' = OPEN
            /\ prevState' = state
            /\ successes' = 0
            /\ hoFail' = [at |-> now, succ |-> successes]
            /\ UNCHANGED last_failure_time
       ELSE /\ last_failure_time' = now
            /\ IF failures + 1 >= failure_threshold
               THEN /\ state' = OPEN
                    /\ prevState' = IF state = OPEN THEN prevState ELSE state
               ELSE UNCHANGED <<state, prevState>>
            /\ UNCHANGED <<successes, hoFail>>
    /\ pc' = [pc EXCEPT ![t] = "reraised"]
    /\ consecFailures' = consecFailures + 1
    /\ UNCHANGED <<now, tbVars>>

\* _on_failure (lines 131-142), then `raise`
on_failure(t) ==
    /\ pc[t] = "fn_err"
    /\ failures < MaxFailures
    /\ failures' = failures + 1
    /\ last_failure_time' = now
    /\ IF state = HALF_OPEN
       THEN /\ state' = OPEN
            /\ prevState' = state
            /\ successes' = 0
            /\ hoFail' = [at |-> now, succ |-> successes]
       ELSE /\ IF failures + 1 >= failure_threshold
               THEN /\ state' = OPEN
                    /\ prevState' = IF state = OPEN THEN prevState ELSE state
               ELSE UNCHANGED <<state, prevState>>
            /\ UNCHANGED <<successes, hoFail>>
    /\ pc' = [pc EXCEPT ![t] = "reraised"]
    /\ consecFailures' = consecFailures + 1
    /\ UNCHANGED <<now, tbVars>>

\* the history kept with a step of the breaker: when it opened
opens == opened_at' = IF state # OPEN /\ state' = OPEN THEN now ELSE opened_at

\* ---------------------------------------------------------- TokenBucket
\* Positions of a caller of the bucket:
\*   idle          not inside wait_and_acquire
\*   wait_loop     at the `while time.time() - start < timeout` test
\*   wait_acquire  in the loop body, about to call self.acquire(tokens)
\*   wait_sleep    in time.sleep(0.1), which ends after the clock has advanced
BucketPositions == {"idle", "wait_loop", "wait_acquire", "wait_sleep"}
NoWait == [n |-> 0, start |-> 0, timeout |-> 0]

Min(a, b) == IF a <= b THEN a ELSE b

\* Variant of the refill: the cap `min(self.capacity, ...)` is missing
Refilled_uncapped == tokens + (now - last_update) * rate

\* min(self.capacity, self.tokens + elapsed * self.rate)   (lines 167-169)
Refilled == Min(capacity * TokenUnit, tokens + (now - last_update) * rate)

\* self.tokens >= tokens, after the refill   (line 172)
Enough(n) == Refilled >= n * TokenUnit

\* Variant of acquire: a granted call leaves the tokens in the bucket, as when
\* two callers read the same count
bucket_acquire_keeps_tokens(n) ==
    /\ last_update' = now
    /\ tokens' = Refilled
    /\ IF Enough(n)
       THEN /\ granted' = granted + n
            /\ drainedAtStart' =
                   (drainedAtStart \/ (now = StartTime /\ granted + n = capacity))
       ELSE UNCHANGED <<granted, drainedAtStart>>

\* Variant of acquire: a refused call moves last_update but drops the refill
bucket_acquire_drops_refill(n) ==
    /\ last_update' = now
    /\ IF Enough(n)
       THEN /\ tokens' = Refilled - n * TokenUnit
            /\ granted' = granted + n
            /\ drainedAtStart' =
                   (drainedAtStart \/ (now = StartTime /\ granted + n = capacity))
       ELSE UNCHANGED <<tokens, granted, drainedAtStart>>

\* Variant of acquire: a granted call deducts from the tokens held before the
\* refill
bucket_acquire_deducts_stale(n) ==
    /\ last_update' = now
    /\ IF Enough(n)
       THEN /\ tokens' = IF tokens >= n * TokenUnit
                         THEN tokens - n * TokenUnit
                         ELSE 0
            /\ granted' = granted + n
            /\ drainedAtStart' =
                   (drainedAtStart \/ (now = StartTime /\ granted + n = capacity))
       ELSE /\ tokens' = Refilled
            /\ UNCHANGED <<granted, drainedAtStart>>

\* TokenBucket.acquire(n), the whole `with self.lock` block (lines 166-175)
bucket_acquire(n) ==
    /\ last_update' = now
    /\ IF Enough(n)
       THEN /\ tokens' = Refilled - n * TokenUnit
            /\ granted' = granted + n
            /\ drainedAtStart' =
                   (drainedAtStart \/ (now = StartTime /\ granted + n = capacity))
       ELSE /\ tokens' = Refilled
            /\ UNCHANGED <<granted, drainedAtStart>>

\* a direct call of acquire(n); it returns Enough(n)
acquire(t, n) ==
    /\ tpc[t] = "idle"
    /\ bucket_acquire(n)
    /\ UNCHANGED <<tpc, w, now, cbVars>>

\* the value get_available returns: int(self.tokens), with no refill
available == tokens \div TokenUnit

\* get_available (lines 186-188): a read under the lock, nothing is written
get_available(t) ==
    /\ tpc[t] = "idle"
    /\ available \in 0..capacity
    /\ UNCHANGED <<tokens, last_update, tpc, w, granted, drainedAtStart, now, cbVars>>

\* wait_and_acquire, line 179: start = time.time()
wait_start(t, n, timeout) ==
    /\ tpc[t] = "idle"
    /\ Cardinality({u \in Threads : tpc[u] # "idle"}) < MaxWaiters
    /\ w' = [w EXCEPT ![t] = [n |-> n, start |-> now, timeout |-> timeout]]
    /\ tpc' = [tpc EXCEPT ![t] = "wait_loop"]
    /\ UNCHANGED <<tokens, last_update, granted, drainedAtStart, now, cbVars>>

\* line 180: the loop test; line 184: return False when it fails
wait_test(t) ==
    /\ tpc[t] = "wait_loop"
    /\ IF now - w[t].start < w[t].timeout
       THEN /\ tpc' = [tpc EXCEPT ![t] = "wait_acquire"]
            /\ UNCHANGED w
       ELSE /\ tpc' = [tpc EXCEPT ![t] = "idle"]
            /\ w' = [w EXCEPT ![t] = NoWait]
    /\ UNCHANGED <<tokens, last_update, granted, drainedAtStart, now, cbVars>>

\* Variant of the loop body: a refused poll is retried at once, without
\* sleeping and without going back to the loop test
wait_poll_spins(t) ==
    /\ tpc[t] = "wait_acquire"
    /\ bucket_acquire(w[t].n)
    /\ IF Enough(w[t].n)
       THEN /\ tpc' = [tpc EXCEPT ![t] = "idle"]
            /\ w' = [w EXCEPT ![t] = NoWait]
       ELSE UNCHANGED <<tpc, w>>
    /\ UNCHANGED <<now, cbVars>>

\* lines 181-183: if self.acquire(tokens): return True; else time.sleep(0.1)
wait_poll(t) ==
    /\ tpc[t] = "wait_acquire"
    /\ bucket_acquire(w[t].n)
    /\ IF Enough(w[t].n)
       THEN /\ tpc' = [tpc EXCEPT ![t] = "idle"]
            /\ w' = [w EXCEPT ![t] = NoWait]
       ELSE /\ tpc' = [tpc EXCEPT ![t] = "wait_sleep"]
            /\ UNCHANGED w
    /\ UNCHANGED <<now, cbVars>>

\* the clock advances; a caller in time.sleep resumes once it has
Tick(limit) ==
    /\ now < limit
    /\ now' = now + 1
    /\ tpc' = [t \in Threads |-> IF tpc[t] = "wait_sleep" THEN "wait_loop" ELSE tpc[t]]
    /\ UNCHANGED <<cbVars, tokens, last_update, w, granted, drainedAtStart>>

\* ---------------------------------------------------- ReconciliationEngine
\* Numbers.  A candidate's value is None or a number; candidate values are
\* integers.  The median of an even count has a half, so every number that
\* reconcile computes from the values (the result's value, the median) is held
\* doubled; mean, std_dev and variance are quotients, held as <<numerator,
\* denominator>>, std_dev by its square.  Times are in seconds.
None == [null |-> TRUE, num |-> 0]
Num(v) == [null |-> FALSE, num |-> v]
Abs(x) == IF x < 0 THEN 0 - x ELSE x
Max(a, b) == IF a >= b THEN a ELSE b
Infinity == <<1, 0>>

\* The values are Python floats (IEEE doubles, 53 significant bits): a sum is
\* the exact sum rounded to the nearest double, ties to the even mantissa.
\* Integers below 2^53 and their sums below 2^53 are exact.  Big stands for
\* 2^53, which the integers of the model cannot hold: a number written
\* Big + v is the double 2^53 + v.  The operators below only add, subtract and
\* compare such numbers and test their ratios against the tolerances; with
\* offsets v far below Big every one of these gives for Big + v what it gives
\* for 2^53 + v.  A list holds either numbers below Big or numbers from Big on.
Big == 2^20

\* the distance between neighbouring doubles at the magnitude of x
ulp(x) ==
    IF Abs(x) < Big THEN 1
    ELSE IF Abs(x) < 2 * Big THEN 2
    ELSE IF Abs(x) < 4 * Big THEN 4
    ELSE 8

\* the double nearest to the exact number x, ties to the even mantissa
float_round(x) ==
    LET u == ulp(x)
        a == Abs(x)
        down == (a \div u) * u
        r == a - down
        up == IF 2 * r > u \/ (2 * r = u /\ (a \div u) % 2 = 1) THEN down + u ELSE down
    IN  IF x < 0 THEN 0 - up ELSE up

\* a + b on floats
float_add(a, b) == float_round(a + b)

\* s / n on floats, for s from Big on: the double nearest to the exact quotient
float_div(s, n) ==
    LET u == ulp(s \div n)
        down == ((s \div n) \div u) * u
        r == s - n * down
    IN  IF 2 * r > n * u \/ (2 * r = n * u /\ (down \div u) % 2 = 1)
        THEN down + u ELSE down

\* ConfidenceLevel (lines 278-282)
HIGH == "high"
MEDIUM == "medium"
LOW == "low"
VERY_LOW == "very_low"
ConfidenceLevel == {HIGH, MEDIUM, LOW, VERY_LOW}

\* fetched_at strings, by what lines 351-352 make of them:
\*   "naive"  an ISO timestamp without offset: parsed, age = now - fetched
\*   "aware"  an ISO timestamp with `Z` or an offset: parsed into an aware
\*            datetime, and `now - fetched` (now = datetime.now(), naive)
\*            raises TypeError
\*   "text"   not an ISO timestamp: fromisoformat raises ValueError
\* `age` is the time between the instant the string names and the call.
Naive(age) == [kind |-> "naive", age |-> age]
Aware(age) == [kind |-> "aware", age |-> age]
Text == [kind |-> "text", age |-> 0]

\* lines 351-352 (and 415-416) complete without an exception
AgeComputed(c) == c.fetched_at.kind = "naive"

\* a.fetched_at > b.fetched_at as Python compares the two strings (line 463):
\* ISO timestamps of one layout order as their instants do, the same instant
\* with a `Z` appended is the longer string, and a string starting with a
\* letter is above every string starting with a digit
FetchedAfter(a, b) ==
    IF a.fetched_at.kind = "text"
    THEN b.fetched_at.kind # "text"
    ELSE /\ b.fetched_at.kind # "text"
         /\ \/ a.fetched_at.age < b.fetched_at.age
            \/ /\ a.fetched_at.age = b.fetched_at.age
               /\ a.fetched_at.kind = "aware"
               /\ b.fetched_at.kind = "naive"

\* MAX_AGE.get(metric_key, MAX_AGE["default"]) (lines 304-312, 345)
MAX_AGE(metric) ==
    CASE metric = "market_cap" -> 48 * 3600
      [] metric = "price" -> 5 * 60
      [] metric \in {"revenue", "ebitda", "pe_ratio", "roe"} -> 24 * 3600
      [] OTHER -> 24 * 3600

\* the tolerances, in hundredths (lines 315-316)
PRIMARY_TOLERANCE == 15
SECONDARY_TOLERANCE == 30

\* SOURCE_TRUST.get(source, 0.5), in hundredths (lines 319-328, 412)
SOURCE_TRUST(source) ==
    CASE source = "nse_india" -> 95
      [] source = "bse_india" -> 90
      [] source = "fmp" -> 80
      [] source = "yfinance" -> 78
      [] source = "alpha_vantage" -> 75
      [] source \in {"gnews", "newsapi"} -> 70
      [] source = "tavily" -> 65
      [] OTHER -> 50

\* Variant of the comparison: infinity passes
AtMost_infinity_passes(q, pct) == q[2] = 0 \/ 100 * q[1] <= pct * q[2]

\* q <= pct / 100 for a quotient q = <<numerator, denominator>>, denominator
\* positive or 0 (infinity)
AtMost(q, pct) == q[2] # 0 /\ 100 * q[1] <= pct * q[2]

\* Variant of the staleness test: the `except` branch drops the candidate
survives_fail_closed(metric, c) ==
    IF AgeComputed(c) THEN c.fetched_at.age <= MAX_AGE(metric) ELSE FALSE

\* lines 350-356: the candidate is appended to valid_candidates
survives(metric, c) ==
    IF AgeComputed(c) THEN c.fetched_at.age <= MAX_AGE(metric) ELSE TRUE

\* Step 1 (lines 347-356)
valid_candidates(metric, cands) == SelectSeq(cands, LAMBDA c : survives(metric, c))

\* line 368, applied to valid_candidates
values(valid) ==
    LET numeric == SelectSeq(valid, LAMBDA c : ~c.value.null)
    IN  [i \in 1..Len(numeric) |-> numeric[i].value.num]

RECURSIVE Sum(_)
Sum(xs) == IF xs = << >> THEN 0 ELSE Head(xs) + Sum(Tail(xs))

\* sum(xs) as Python computes it: ((0 + xs[1]) + xs[2]) + ..., each addition
\* rounded
RECURSIVE float_sum(_)
float_sum(xs) ==
    IF xs = << >> THEN 0
    ELSE float_add(float_sum(SubSeq(xs, 1, Len(xs) - 1)), xs[Len(xs)])

\* line 379
values_sorted(xs) == SortSeq(xs, LAMBDA a, b : a < b)

\* line 381, doubled: the middle value, or the sum of the two middle values
median(xs) ==
    LET n == Len(xs)
        v == values_sorted(xs)
    IN  IF n % 2 = 1 THEN 2 * v[(n \div 2) + 1]
        ELSE float_add(v[n \div 2], v[(n \div 2) + 1])

\* line 382: sum(values) / n.  Below Big the sum is exact and the quotient is
\* kept as it is; from Big on the quotient is the double nearest to it
mean(xs) ==
    IF float_sum(xs) < Big
    THEN <<float_sum(xs), Len(xs)>>
    ELSE <<float_div(float_sum(xs), Len(xs)), 1>>

\* line 383, squared.  Below Big: sum((x - mean)^2) / n
\* = (n * sum(x^2) - sum(x)^2) / n^2.  From Big on, x - mean is exact for the
\* double mean, and so are the squares and their sum
std_dev(xs) ==
    LET n == Len(xs)
        m == mean(xs)[1]
    IN  IF n <= 1 THEN <<0, 1>>
        ELSE IF float_sum(xs) < Big
        THEN <<n * Sum([i \in 1..n |-> xs[i] * xs[i]]) - Sum(xs) * Sum(xs), n * n>>
        ELSE <<Sum([i \in 1..n |-> (xs[i] - m) * (xs[i] - m)]), n>>

\* lines 384-385
min_val(xs) == CHOOSE x \in {xs[i] : i \in 1..Len(xs)} : \A i \in 1..Len(xs) : x <= xs[i]
max_val(xs) == CHOOSE x \in {xs[i] : i \in 1..Len(xs)} : \A i \in 1..Len(xs) : x >= xs[i]

\* Variant of the variance: a median of 0 counts as full agreement
variance_zero_median_agrees(xs) ==
    IF median(xs) # 0
    THEN <<2 * (max_val(xs) - min_val(xs)), Abs(median(xs))>>
    ELSE <<0, 1>>

\* lines 388-391: (max_val - min_val) / abs(median), or float('inf')
variance(xs) ==
    IF median(xs) # 0
    THEN <<2 * (max_val(xs) - min_val(xs)), Abs(median(xs))>>
    ELSE Infinity

\* lines 412-421, times 100 * 48 * 3600 (exact arithmetic: scores that differ
\* only by the rounding of the float operations are equal here):
\* score = trust + recency_weight * 0.3, recency_weight = max(0, 1 - age_hours / 48)
\* or 0.5 when the age cannot be computed
score(c) ==
    SOURCE_TRUST(c.source) * (48 * 3600)
      + (IF AgeComputed(c)
         THEN 30 * Max(0, 48 * 3600 - c.fetched_at.age)
         ELSE 30 * (24 * 3600))

\* lines 409-422: the candidates that are scored, in list order
scored(valid) == SelectSeq(valid, LAMBDA c : ~c.value.null)

\* line 424 raises TypeError: sorting the (score, candidate) tuples compares
\* two candidates with `<` as soon as two tuples have equal scores and unequal
\* candidates, and ReconciliationCandidate defines no ordering
sort_raises(cs) ==
    \E i, j \in 1..Len(cs) : i < j /\ score(cs[i]) = score(cs[j]) /\ cs[i] # cs[j]

RemoveAt(cs, i) == [k \in 1..(Len(cs) - 1) |-> IF k < i THEN cs[k] ELSE cs[k + 1]]

\* line 424 when it does not raise: descending by score (tuples with equal
\* scores hold equal candidates)
RECURSIVE scored_candidates(_)
scored_candidates(cs) ==
    IF cs = << >> THEN << >>
    ELSE LET i == CHOOSE k \in 1..Len(cs) :
                     /\ \A j \in 1..Len(cs) : score(cs[k]) >= score(cs[j])
                     /\ \A j \in 1..(k - 1) : score(cs[j]) < score(cs[k])
         IN  <<cs[i]>> \o scored_candidates(RemoveAt(cs, i))

\* line 463: sorted(candidates, key=fetched_at, reverse=True), a stable sort:
\* candidates with equal fetched_at keep their list order
RECURSIVE sorted_by_fetched_at(_)
sorted_by_fetched_at(cs) ==
    IF cs = << >> THEN << >>
    ELSE LET i == CHOOSE k \in 1..Len(cs) :
                     /\ \A j \in 1..Len(cs) : ~FetchedAfter(cs[j], cs[k])
                     /\ \A j \in 1..(k - 1) : FetchedAfter(cs[k], cs[j])
         IN  <<cs[i]>> \o sorted_by_fetched_at(RemoveAt(cs, i))

\* Variant of _get_top_provenance: the k most trusted candidates
get_top_provenance_by_trust(cs, k) ==
    LET top == SubSeq(scored_candidates(cs), 1, IF Len(cs) < k THEN Len(cs) ELSE k)
    IN  [i \in 1..Len(top) |->
            [source |-> top[i].source, value |-> top[i].value,
             fetched_at |-> top[i].fetched_at]]

\* _get_top_provenance (lines 460-470)
get_top_provenance(cs, k) ==
    LET top == SubSeq(sorted_by_fetched_at(cs), 1, IF Len(cs) < k THEN Len(cs) ELSE k)
    IN  [i \in 1..Len(top) |->
            [source |-> top[i].source, value |-> top[i].value,
             fetched_at |-> top[i].fetched_at]]

\* what `result` holds: nothing yet, a returned dict, or a raised exception
NoResult == [status |-> "pending", dict |-> << >>, error |-> ""]
Returned(d) == [status |-> "returned", dict |-> d, error |-> ""]
Raised(e) == [status |-> "raised", dict |-> << >>, error |-> e]

\* the empty dict {}
EmptyDict == << >>

\* lines 426-445: the secondary check passes
secondary_agrees(sc) ==
    /\ Len(sc) >= 2
    /\ sc[1].value.num # 0
    /\ sc[2].value.num # 0
    /\ 100 * Abs(sc[1].value.num - sc[2].value.num)
          <= SECONDARY_TOLERANCE * Abs(sc[1].value.num)

\* lines 336-342
missing_data_result ==
    [value |-> None, confidence |-> VERY_LOW, provenance |-> << >>,
     issue |-> "missing_data", diagnostics |-> EmptyDict]

\* Variant of the stale-data result: graded LOW
stale_data_result_low ==
    [value |-> None, confidence |-> LOW, provenance |-> << >>,
     issue |-> "stale_data", diagnostics |-> EmptyDict]

\* lines 359-365
stale_data_result ==
    [value |-> None, confidence |-> VERY_LOW, provenance |-> << >>,
     issue |-> "stale_data", diagnostics |-> EmptyDict]

\* Variant of the no-numeric-values result: graded VERY_LOW
no_numeric_values_result_very_low ==
    [value |-> None, confidence |-> VERY_LOW, provenance |-> << >>,
     issue |-> "no_numeric_values", diagnostics |-> EmptyDict]

\* lines 371-377
no_numeric_values_result ==
    [value |-> None, confidence |-> LOW, provenance |-> << >>,
     issue |-> "no_numeric_values", diagnostics |-> EmptyDict]

\* Variant of the HIGH result: a value no second candidate corroborates is
\* graded MEDIUM
high_result_needs_two(valid, xs) ==
    [value |-> Num(median(xs)),
     confidence |-> IF Len(valid) >= 2 THEN HIGH ELSE MEDIUM,
     provenance |-> get_top_provenance(valid, 3),
     diagnostics |->
         [median |-> median(xs), mean |-> mean(xs), std_dev |-> std_dev(xs),
          variance |-> variance(xs), candidate_count |-> Len(valid)]]

\* lines 395-406
high_result(valid, xs) ==
    [value |-> Num(median(xs)), confidence |-> HIGH,
     provenance |-> get_top_provenance(valid, 3),
     diagnostics |->
         [median |-> median(xs), mean |-> mean(xs), std_dev |-> std_dev(xs),
          variance |-> variance(xs), candidate_count |-> Len(valid)]]

\* Variant of the MEDIUM result: it carries an `issue` key
medium_result_with_issue(valid, xs, sc) ==
    [value |-> Num(median(xs)), confidence |-> MEDIUM,
     provenance |-> get_top_provenance(valid, 3),
     issue |-> "sources_differ",
     diagnostics |->
         [median |-> median(xs), variance |-> variance(xs),
          top_source |-> sc[1].source, candidate_count |-> Len(valid)]]

\* lines 435-445
medium_result(valid, xs, sc) ==
    [value |-> Num(median(xs)), confidence |-> MEDIUM,
     provenance |-> get_top_provenance(valid, 3),
     diagnostics |->
         [median |-> median(xs), variance |-> variance(xs),
          top_source |-> sc[1].source, candidate_count |-> Len(valid)]]

\* Variant of the conflict result: the value of the first numeric candidate listed
conflict_result_first_listed(valid, xs, sc) ==
    [value |-> Num(2 * xs[1]), confidence |-> LOW,
     provenance |-> get_top_provenance(valid, 1),
     issue |-> "conflicting_sources",
     diagnostics |->
         [variance |-> variance(xs), top_source |-> sc[1].source,
          candidate_count |-> Len(valid)]]

\* lines 448-458 (scored_candidates is not empty here: values is not)
conflict_result(valid, xs, sc) ==
    [value |-> Num(2 * sc[1].value.num), confidence |-> LOW,
     provenance |-> get_top_provenance(valid, 1),
     issue |-> "conflicting_sources",
     diagnostics |->
         [variance |-> variance(xs), top_source |-> sc[1].source,
          candidate_count |-> Len(valid)]]

\* ReconciliationEngine.reconcile (lines 330-458)
reconcile(metric, cands) ==
    LET valid == valid_candidates(metric, cands)
        xs == values(valid)
        sc == scored_candidates(scored(valid))
    IN  IF cands = << >> THEN Returned(missing_data_result)
        ELSE IF valid = << >> THEN Returned(stale_data_result)
        ELSE IF xs = << >> THEN Returned(no_numeric_values_result)
        ELSE IF AtMost(variance(xs), PRIMARY_TOLERANCE)
             THEN Returned(high_result(valid, xs))
        ELSE IF sort_raises(scored(valid)) THEN Raised("TypeError")
        ELSE IF secondary_agrees(sc) THEN Returned(medium_result(valid, xs, sc))
        ELSE Returned(conflict_result(valid, xs, sc))

\* the inputs a call is made with: a metric whose maximum age is 48 h and one
\* whose is 24 h; no value, zero, a negative value, and values 5%, 20% and
\* 50% apart; the most
\* trusted source and one without a trust entry; timestamps naming the instant
\* of the call, 40 h and 48 h before it, 48 h after it (a source whose clock
\* is ahead; its age is negative), one with an offset naming 72 h before it,
\* and one that cannot be parsed
MetricKeys == {"market_cap", "revenue"}
Values == {None, Num(0), Num(0 - 100), Num(100), Num(105), Num(120), Num(150)}
Sources == {"nse_india", "unlisted"}
Stamps ==
    {Naive(0 - 48 * 3600), Naive(0), Naive(40 * 3600), Naive(48 * 3600),
     Aware(72 * 3600), Text}
Candidates == [value : Values, source : Sources, fetched_at : Stamps]

\* the call returns or raises
reconcile_call ==
    /\ result = NoResult
    /\ result' = reconcile(metric_key, candidates)
    /\ UNCHANGED <<metric_key, candidates>>

\* ======================================================================
\* ProvenanceTracker (lines 255-271)
\* ======================================================================
Adders == 1..MaxAdders

\* the ProvenanceRecord objects that are added: two distinct ones
ProvenanceRecords == {"p1", "p2"}

\* Positions of a thread in add(), `self.records[metric_key].append(record)`:
\*   idle     not inside add
\*   missing  the key was not in the dict: defaultdict.__missing__ has called
\*            list() and has not stored the new list yet (the interpreter
\*            switches threads here when the allocation runs a finalizer)
\*   holding  self.records[metric_key] is evaluated, append not yet called
TrackerPositions == {"idle", "missing", "holding"}

\* The list a thread inside add() holds is "new" (made by __missing__, not
\* stored yet), "stored" (the dict's list for its key) or "dropped" (a list
\* that was the dict's and is not any more).
NoAdd == [key |-> "market_cap", record |-> "p1", list |-> "none"]

\* a key that is not in the dict
NoList == [present |-> FALSE, items |-> << >>]
NoGot == [key |-> "none", items |-> << >>]

\* add() calls made since the last clear(), returned or under way
AddsMade ==
    Len(pt_log["market_cap"]) + Len(pt_log["revenue"])
        + Cardinality({t \in Adders : pt_pc[t] # "idle"})

\* every thread that holds the stored list of key k holds a dropped list
\* once the dict's entry for k is replaced or removed
Dropped(arg, keys) ==
    [u \in Adders |-> IF arg[u].key \in keys /\ arg[u].list = "stored"
                      THEN [arg[u] EXCEPT !.list = "dropped"]
                      ELSE arg[u]]

\* add, `self.records[metric_key]`: the lookup (line 263)
add_lookup(t, k, r) ==
    /\ pt_pc[t] = "idle"
    /\ AddsMade < MaxAdds
    /\ IF records[k].present
       THEN /\ pt_pc' = [pt_pc EXCEPT ![t] = "holding"]
            /\ pt_arg' = [pt_arg EXCEPT ![t] = [key |-> k, record |-> r, list |-> "stored"]]
       ELSE /\ pt_pc' = [pt_pc EXCEPT ![t] = "missing"]
            /\ pt_arg' = [pt_arg EXCEPT ![t] = [key |-> k, record |-> r, list |-> "new"]]
    /\ UNCHANGED <<records, pt_log, pt_got, pt_overlapped>>

\* add, __missing__ stores the list it made, over whatever is there (line 263)
add_store(t) ==
    /\ pt_pc[t] = "missing"
    /\ records' = [records EXCEPT ![pt_arg[t].key] = [present |-> TRUE, items |-> << >>]]
    /\ pt_arg' = [Dropped(pt_arg, {pt_arg[t].key}) EXCEPT ![t].list = "stored"]
    /\ pt_pc' = [pt_pc EXCEPT ![t] = "holding"]
    /\ UNCHANGED <<pt_log, pt_got, pt_overlapped>>

\* add, `.append(record)` on the list the thread holds (line 263)
add_append(t) ==
    /\ pt_pc[t] = "holding"
    /\ records' = IF pt_arg[t].list = "stored"
                  THEN [records EXCEPT ![pt_arg[t].key].items = Append(@, pt_arg[t].record)]
                  ELSE records
    /\ pt_log' = [pt_log EXCEPT ![pt_arg[t].key] = Append(@, pt_arg[t].record)]
    /\ pt_pc' = [pt_pc EXCEPT ![t] = "idle"]
    /\ pt_arg' = [pt_arg EXCEPT ![t] = NoAdd]
    /\ UNCHANGED <<pt_got, pt_overlapped>>

\* get (lines 265-267): dict.get, which stores nothing
get(t, k) ==
    /\ pt_pc[t] = "idle"
    /\ pt_got' = [key |-> k, items |-> IF records[k].present THEN records[k].items ELSE << >>]
    /\ UNCHANGED <<records, pt_pc, pt_arg, pt_log, pt_overlapped>>

\* clear (lines 269-271)
clear(t) ==
    /\ pt_pc[t] = "idle"
    /\ records' = [k \in MetricKeys |-> NoList]
    /\ pt_arg' = Dropped(pt_arg, MetricKeys)
    /\ pt_log' = [k \in MetricKeys |-> << >>]
    /\ pt_overlapped' = (pt_overlapped \/ \E u \in Adders : pt_pc[u] # "idle")
    /\ UNCHANGED <<pt_pc, pt_got>>

\* the tracker after construction (__init__, lines 258-259)
InitTracker ==
    /\ records = [k \in MetricKeys |-> NoList]
    /\ pt_pc = [t \in Adders |-> "idle"]
    /\ pt_arg = [t \in Adders |-> NoAdd]
    /\ pt_log = [k \in MetricKeys |-> << >>]
    /\ pt_got = NoGot
    /\ pt_overlapped = FALSE

\* ======================================================================
\* MetricsCollector (lines 477-511)
\* ======================================================================
Recorders == 1..MaxRecorders
NoThread == 0

MetricNames == {"alpha_vantage", "fmp"}

\* latencies passed to record: the default 0, and the doubles 1 and 2^53,
\* whose sums are rounded as those of 0.1, 0.2 and 0.3 are
Latencies == {0, 1, Big}

\* Positions of a thread in record():
\*   idle     not inside the `with self.lock` block
\*   counted  inside it, `m["count"] += 1` done, the rest not yet
CollectorPositions == {"idle", "counted"}

\* the entry the defaultdict's factory makes (lines 481-486), not yet stored
NoEntry == [present |-> FALSE, count |-> 0, errors |-> 0, total_latency |-> 0, last_error |-> NoTime]
NoRecord == [name |-> "alpha_vantage", latency |-> 0, error |-> FALSE]
NoStats == [name |-> "none"]

\* record() calls made, returned or under way
RecordsMade ==
    Len(mc_log["alpha_vantage"]) + Len(mc_log["fmp"])
        + Cardinality({t \in Recorders : mc_pc[t] # "idle"})

\* record, lines 489-492: take the lock, m = self.metrics[name] (which stores
\* the factory's entry for a new name), m["count"] += 1
record_count(t, name, latency, error) ==
    /\ mc_pc[t] = "idle"
    /\ lock = NoThread
    /\ RecordsMade < MaxRecords
    /\ lock' = t
    /\ metrics' = [metrics EXCEPT ![name] = [@ EXCEPT !.present = TRUE, !.count = @ + 1]]
    /\ mc_pc' = [mc_pc EXCEPT ![t] = "counted"]
    /\ mc_arg' = [mc_arg EXCEPT ![t] = [name |-> name, latency |-> latency, error |-> error]]
    /\ UNCHANGED <<mc_log, mc_stats>>

\* record_rest counting an error for every call
record_rest_error_always(t) ==
    /\ mc_pc[t] = "counted"
    /\ metrics' = [metrics EXCEPT ![mc_arg[t].name] =
                      [@ EXCEPT !.errors = @ + 1,
                                !.last_error = now,
                                !.total_latency = float_add(@, mc_arg[t].latency)]]
    /\ lock' = NoThread
    /\ mc_log' = [mc_log EXCEPT ![mc_arg[t].name] =
                      Append(@, [latency |-> mc_arg[t].latency, error |-> mc_arg[t].error])]
    /\ mc_pc' = [mc_pc EXCEPT ![t] = "idle"]
    /\ mc_arg' = [mc_arg EXCEPT ![t] = NoRecord]
    /\ UNCHANGED mc_stats

\* record, lines 493-496: errors, last_error, total_latency, release the lock
record_rest(t) ==
    /\ mc_pc[t] = "counted"
    /\ metrics' = [metrics EXCEPT ![mc_arg[t].name] =
                      [@ EXCEPT !.errors = IF mc_arg[t].error THEN @ + 1 ELSE @,
                                !.last_error = IF mc_arg[t].error THEN now ELSE @,
                                !.total_latency = float_add(@, mc_arg[t].latency)]]
    /\ lock' = NoThread
    /\ mc_log' = [mc_log EXCEPT ![mc_arg[t].name] =
                      Append(@, [latency |-> mc_arg[t].latency, error |-> mc_arg[t].error])]
    /\ mc_pc' = [mc_pc EXCEPT ![t] = "idle"]
    /\ mc_arg' = [mc_arg EXCEPT ![t] = NoRecord]
    /\ UNCHANGED mc_stats

\* the dict get_stats builds from m = self.metrics.get(name, {}) (lines
\* 500-508); a quotient is held as <<numerator, denominator>>
stats_of(name, m) ==
    LET count == IF m.present THEN m.count ELSE 0
        errors == IF m.present THEN m.errors ELSE 0
    IN  [name |-> name,
         count |-> count,
         errors |-> errors,
         error_rate |-> IF count > 0 THEN <<errors, count>> ELSE <<0, 1>>,
         avg_latency |-> IF count > 0 THEN <<m.total_latency, count>> ELSE <<0, 1>>,
         last_error |-> IF m.present THEN m.last_error ELSE NoTime]

\* get_stats reading the entry without taking the lock
get_stats_unlocked(t, name) ==
    /\ mc_pc[t] = "idle"
    /\ mc_stats' = stats_of(name, metrics[name])
    /\ UNCHANGED <<metrics, lock, mc_pc, mc_arg, mc_log>>

\* get_stats (lines 498-508): the whole method runs holding the lock
get_stats(t, name) ==
    /\ mc_pc[t] = "idle"
    /\ lock = NoThread
    /\ mc_stats' = stats_of(name, metrics[name])
    /\ UNCHANGED <<metrics, lock, mc_pc, mc_arg, mc_log>>

\* the collector after construction (__init__, lines 480-487)
InitCollector ==
    /\ metrics = [n \in MetricNames |-> NoEntry]
    /\ lock = NoThread
    /\ mc_pc = [t \in Recorders |-> "idle"]
    /\ mc_arg = [t \in Recorders |-> NoRecord]
    /\ mc_log = [n \in MetricNames |-> << >>]
    /\ mc_stats = NoStats

\* ======================================================================
\* SchemaValidator (lines 25-74)
\* ======================================================================
\* a "type" of a schema property: one name, or a list of names
Plain(name) == [plain |-> TRUE, names |-> <<name>>]
Listed(names) == [plain |-> FALSE, names |-> names]

\* lines 29-43; "properties" in the order the dict holds them
ADAPTER_RESPONSE_SCHEMA ==
    [required |-> <<"company_id", "metric", "source_id", "fetched_at">>,
     properties |-> <<[key |-> "company_id", type |-> Plain("string")],
                      [key |-> "metric", type |-> Plain("string")],
                      [key |-> "raw_value", type |-> Listed(<<"number", "null">>)],
                      [key |-> "raw_units", type |-> Plain("string")],
                      [key |-> "raw_currency", type |-> Plain("string")],
                      [key |-> "source_id", type |-> Plain("string")],
                      [key |-> "reported_at", type |-> Plain("string")],
                      [key |-> "fetched_at", type |-> Plain("string")],
                      [key |-> "meta", type |-> Plain("object")]>>]

\* a second schema passed to validate: its types are single names, "number"
\* and "array" among them
PLAIN_SCHEMA ==
    [required |-> <<"metric", "raw_value">>,
     properties |-> <<[key |-> "raw_value", type |-> Plain("number")],
                      [key |-> "metric", type |-> Plain("string")],
                      [key |-> "meta", type |-> Plain("array")]>>]

Schemas == {ADAPTER_RESPONSE_SCHEMA, PLAIN_SCHEMA}

Keys == {ADAPTER_RESPONSE_SCHEMA.properties[i].key : i \in 1..Len(ADAPTER_RESPONSE_SCHEMA.properties)}

\* what the value of a key is: a str, an int or float, None, a dict, a list;
\* or the key is not in the payload
Kinds == {"str", "number", "null", "object", "array"}
Absent == "absent"

\* the payload every adapter is meant to produce
WellFormed ==
    [k \in Keys |-> IF k = "raw_value" THEN "number" ELSE IF k = "meta" THEN "object" ELSE "str"]

\* a payload that is a dict, and one that is not (None)
Dict(fields) == [dict |-> TRUE, fields |-> fields]
NotADict == [dict |-> FALSE, fields |-> [k \in Keys |-> Absent]]

\* the messages of lines 52, 62-69 and 73
NoMessage == [text |-> "", field |-> "", type |-> ""]
Missing(field) == [text |-> "Missing required field", field |-> field, type |-> ""]
MustBe(field, type) == [text |-> "must be", field |-> field, type |-> type]
ValidationError == [text |-> "Validation error", field |-> "", type |-> ""]

\* lines 61-69: the four tests made on a value of kind `kind` against
\* expected_type; None passes the test for "number" (line 66)
TypeFails(expected_type, kind) ==
    /\ expected_type.plain
    /\ \/ expected_type.names[1] = "object" /\ kind # "object"
       \/ expected_type.names[1] = "string" /\ kind # "str"
       \/ expected_type.names[1] = "number" /\ kind \notin {"number", "null"}
       \/ expected_type.names[1] = "array" /\ kind # "array"

Least(S) == CHOOSE i \in S : \A j \in S : i <= j

\* validate with the type checks made before the required-field checks
validate_types_first(data, schema) ==
    LET required == schema.required
        properties == schema.properties
        missing == {i \in 1..Len(required) : data.fields[required[i]] = Absent}
        failing == {i \in 1..Len(properties) :
                       /\ data.fields[properties[i].key] # Absent
                       /\ TypeFails(properties[i].type, data.fields[properties[i].key])}
    IN  IF ~data.dict
        THEN IF Len(required) = 0 /\ Len(properties) = 0
             THEN <<TRUE, NoMessage>>
             ELSE <<FALSE, ValidationError>>
        ELSE IF failing # {}
        THEN <<FALSE, MustBe(properties[Least(failing)].key,
                             properties[Least(failing)].type.names[1])>>
        ELSE IF missing # {}
        THEN <<FALSE, Missing(required[Least(missing)])>>
        ELSE <<TRUE, NoMessage>>

\* validate (lines 45-74): the pair it returns. `in` on a payload that is
\* not a container raises TypeError, which line 72 turns into a pair.
validate(data, schema) ==
    LET required == schema.required
        properties == schema.properties
        missing == {i \in 1..Len(required) : data.fields[required[i]] = Absent}
        failing == {i \in 1..Len(properties) :
                       /\ data.fields[properties[i].key] # Absent
                       /\ TypeFails(properties[i].type, data.fields[properties[i].key])}
    IN  IF ~data.dict
        THEN IF Len(required) = 0 /\ Len(properties) = 0
             THEN <<TRUE, NoMessage>>
             ELSE <<FALSE, ValidationError>>
        ELSE IF missing # {}
        THEN <<FALSE, Missing(required[Least(missing)])>>
        ELSE IF failing # {}
        THEN <<FALSE, MustBe(properties[Least(failing)].key,
                             properties[Least(failing)].type.names[1])>>
        ELSE <<TRUE, NoMessage>>

\* validate has not returned yet
NoReturn == <<FALSE, [text |-> "none", field |-> "", type |-> ""]>>

\* the call returns
validate_call ==
    /\ sv_ret = NoReturn
    /\ sv_ret' = validate(sv_data, sv_schema)
    /\ UNCHANGED <<sv_data, sv_schema>>

\* no call of validate has been made: there are no arguments yet
NoPayload == [dict |-> FALSE, fields |-> << >>]
NoSchema == [required |-> << >>, properties |-> << >>]

InitValidator ==
    /\ sv_data = NoPayload
    /\ sv_schema = NoSchema
    /\ sv_ret = NoReturn

\* ======================================================================
\* The breaker's lock (line 99) and RateLimiter.get_status (lines 225-233)
\* ======================================================================
\* the positions from which a thread enters a `with self.lock` block: of
\* call (line 103), of _on_success (line 120), of _on_failure (line 132)
BeforeBlock == OutsideCall \cup {"fn_ok", "fn_err"}

\* `with self.lock`: the thread takes the breaker's lock
lock_enter(t) ==
    /\ cb_lock = NoThread
    /\ pc[t] \in BeforeBlock
    /\ cb_lock' = t
    /\ UNCHANGED <<now, cbVars, tbVars, status>>

\* the body of the block the thread is in, and the release of the lock
lock_body(t) ==
    /\ cb_lock = t
    /\ call(t) \/ on_success(t) \/ on_failure(t)
    /\ cb_lock' = NoThread
    /\ UNCHANGED status

\* func runs, returns or raises: outside every block (lines 112-113, 116)
lock_free_step(t) ==
    /\ invoke_func(t) \/ func_returns(t) \/ func_raises(t)
    /\ UNCHANGED <<cb_lock, status>>

\* get_status (lines 225-233), the entry of one source: get_available takes
\* the bucket's lock; the breaker's state is read as it is, no lock taken
get_status(t) ==
    /\ pc[t] \in OutsideCall
    /\ cb_lock # t
    /\ status' = [available |-> available, circuit_state |-> state]
    /\ UNCHANGED <<now, cbVars, tbVars, cb_lock>>

NoStatus == [available |-> 0, circuit_state |-> "none"]

\* the lock after construction (line 99); get_status not called yet
InitLocks ==
    /\ cb_lock = NoThread
    /\ status = NoStatus

\* no fetch adapter has been called, no request has gone out
NoRequest == [source |-> "none", permit |-> "none"]
InitFetch ==
    /\ fa_pc = [t \in 1..MaxLimiterCallers |-> "idle"]
    /\ fa_source = "fmp"
    /\ net = NoRequest

\* the breaker after construction (dataclass defaults, lines 95-98)
InitBreaker ==
    /\ state = CLOSED
    /\ failures = 0
    /\ successes = 0
    /\ last_failure_time = 0
    /\ pc = [t \in Threads |-> "idle"]
    /\ hoFail = [at |-> NoTime, succ |-> 0]
    /\ prevState = "none"
    /\ consecFailures = 0
    /\ opened_at = NoTime

\* the bucket after construction (__init__, lines 156-162): full
InitBucket ==
    /\ tokens = capacity * TokenUnit
    /\ last_update = StartTime
    /\ tpc = [t \in Threads |-> "idle"]
    /\ w = [t \in Threads |-> NoWait]
    /\ granted = 0
    /\ drainedAtStart = FALSE
    /\ attempted = [t \in Threads |-> FALSE]

\* no RateLimiter method has returned yet
InitLimiter == rl_ret = "none"

\* no call of reconcile has been made
InitEngine ==
    /\ metric_key = "market_cap"
    /\ candidates = << >>
    /\ result = NoResult

Init ==
    /\ now = StartTime
    /\ InitBreaker
    /\ InitBucket
    /\ InitLimiter
    /\ InitEngine
    /\ InitTracker
    /\ InitCollector
    /\ InitValidator
    /\ InitLocks
    /\ InitFetch

NextCB ==
    \/ \E t \in Threads : call(t) /\ UNCHANGED <<rlVars, reVars, ptVars, mcVars, faVars, svVars, lkVars, cbHist, tbHist>>
    \/ \E t \in Threads : invoke_func(t) /\ UNCHANGED <<rlVars, reVars, ptVars, mcVars, faVars, svVars, lkVars, cbHist, tbHist>>
    \/ \E t \in Threads : func_returns(t) /\ UNCHANGED <<rlVars, reVars, ptVars, mcVars, faVars, svVars, lkVars, cbHist, tbHist>>
    \/ \E t \in Threads : func_raises(t) /\ UNCHANGED <<rlVars, reVars, ptVars, mcVars, faVars, svVars, lkVars, cbHist, tbHist>>
    \/ \E t \in Threads : on_success(t) /\ UNCHANGED <<rlVars, reVars, ptVars, mcVars, faVars, svVars, lkVars, cbHist, tbHist>>
    \/ \E t \in Threads : on_failure(t) /\ opens /\ UNCHANGED <<rlVars, reVars, ptVars, mcVars, faVars, svVars, lkVars, tbHist>>
    \/ Tick(MaxTime) /\ UNCHANGED <<rlVars, reVars, ptVars, mcVars, faVars, svVars, lkVars, cbHist, tbHist>>

SpecCB == Init /\ [][NextCB]_vars

NextTB ==
    \/ \E t \in Threads, n \in 1..MaxAcquire :
          acquire(t, n) /\ UNCHANGED <<rlVars, reVars, ptVars, mcVars, faVars, svVars, lkVars, cbHist, tbHist>>
    \/ \E t \in Threads : get_available(t) /\ UNCHANGED <<rlVars, reVars, ptVars, mcVars, faVars, svVars, lkVars, cbHist, tbHist>>
    \/ \E t \in Threads, n \in 1..MaxAcquire, d \in 0..MaxTimeout :
          wait_start(t, n, d) /\ UNCHANGED <<rlVars, reVars, ptVars, mcVars, faVars, svVars, lkVars, cbHist, tbHist>>
    \/ \E t \in Threads : wait_test(t) /\ UNCHANGED <<rlVars, reVars, ptVars, mcVars, faVars, svVars, lkVars, cbHist, tbHist>>
    \/ \E t \in Threads : wait_poll(t) /\ UNCHANGED <<rlVars, reVars, ptVars, mcVars, faVars, svVars, lkVars, cbHist, tbHist>>
    \/ Tick(MaxBucketTime) /\ UNCHANGED <<rlVars, reVars, ptVars, mcVars, faVars, svVars, lkVars, cbHist, tbHist>>

SpecTB == Init /\ [][NextTB]_vars

\* The same callers under a fair schedule: a thread that can take its next step
\* inside wait_and_acquire eventually takes it (the loop body holds the lock
\* only for the span of one acquire, and time.sleep returns), and the clock
\* keeps advancing up to the horizon.
NextWait ==
    \/ \E t \in Threads, n \in 1..MaxAcquire :
          acquire(t, n) /\ UNCHANGED <<rlVars, reVars, ptVars, mcVars, faVars, svVars, lkVars, cbHist, tbHist>>
    \/ \E t \in Threads, n \in 1..MaxAcquire, d \in 0..MaxTimeout :
          wait_start(t, n, d) /\ UNCHANGED <<rlVars, reVars, ptVars, mcVars, faVars, svVars, lkVars, cbHist, tbHist>>
    \/ \E t \in Threads : wait_test(t) /\ UNCHANGED <<rlVars, reVars, ptVars, mcVars, faVars, svVars, lkVars, cbHist, tbHist>>
    \/ \E t \in Threads : wait_poll(t) /\ UNCHANGED <<rlVars, reVars, ptVars, mcVars, faVars, svVars, lkVars, cbHist, tbHist>>
    \/ Tick(MaxWaitTime) /\ UNCHANGED <<rlVars, reVars, ptVars, mcVars, faVars, svVars, lkVars, cbHist, tbHist>>

SpecTBFair ==
    /\ Init
    /\ [][NextWait]_vars
    /\ \A t \in Threads : WF_vars(wait_test(t) /\ UNCHANGED <<rlVars, reVars, ptVars, mcVars, faVars, svVars, lkVars, cbHist, tbHist>>)
    /\ \A t \in Threads : WF_vars(wait_poll(t) /\ UNCHANGED <<rlVars, reVars, ptVars, mcVars, faVars, svVars, lkVars, cbHist, tbHist>>)
    /\ WF_vars(Tick(MaxWaitTime) /\ UNCHANGED <<rlVars, reVars, ptVars, mcVars, faVars, svVars, lkVars, cbHist, tbHist>>)

\* ------------------------------------------------------------ RateLimiter
\* the names with an entry in self.limits (lines 196-203); the model keeps one
\* of them, whose bucket is the TokenBucket above
limits == {"fmp"}

LimiterCallers == 1..MaxLimiterCallers

\* the names a caller passes: a configured one and one without an entry
SourceNames == limits \cup {"unlisted"}

Bool(b) == IF b THEN "true" ELSE "false"

\* Variant of RateLimiter.acquire: a name without an entry is refused
rl_acquire_refuses_unknown(t, source, n) ==
    IF source \notin limits
    THEN /\ tpc[t] = "idle"
         /\ rl_ret' = "false"
         /\ UNCHANGED <<now, cbVars, tbVars>>
    ELSE /\ acquire(t, n)
         /\ rl_ret' = Bool(Enough(n))

\* RateLimiter.acquire(source, tokens) (lines 209-215)
rl_acquire(t, source, n) ==
    IF source \notin limits
    THEN /\ tpc[t] = "idle"
         /\ rl_ret' = "true"
         /\ UNCHANGED <<now, cbVars, tbVars>>
    ELSE /\ acquire(t, n)
         /\ rl_ret' = Bool(Enough(n))

\* RateLimiter.wait_for(source, tokens, timeout) (lines 217-223): for a
\* configured name the caller enters the bucket's wait_and_acquire
rl_wait_for(t, source, n, timeout) ==
    IF source \notin limits
    THEN /\ tpc[t] = "idle"
         /\ rl_ret' = "true"
         /\ UNCHANGED <<now, cbVars, tbVars>>
    ELSE /\ wait_start(t, n, timeout)
         /\ UNCHANGED rl_ret

\* line 223, `return bucket.wait_and_acquire(...)`: the loop test of the
\* bucket's wait; wait_for returns False when the wait does
rl_wait_test(t) ==
    /\ wait_test(t)
    /\ rl_ret' = IF tpc'[t] = "idle" THEN "false" ELSE rl_ret

\* line 223: a poll of the bucket's wait; wait_for returns True when it succeeds
rl_wait_poll(t) ==
    /\ wait_poll(t)
    /\ rl_ret' = IF tpc'[t] = "idle" THEN "true" ELSE rl_ret

\* ----------------------------------------------------------------------
\* The fetch adapters of production_intelligence.py (fetch_alpha_vantage,
\* lines 220-245; fetch_fmp, lines 247-293), called with a key and a query:
\* the rate limiting and the request. Positions of a caller:
\*   idle      not inside the adapter
\*   acquired  rate_limiter.acquire(source) has returned (rl_ret)
\*   waiting   inside rate_limiter.wait_for(source, timeout=30)
FetchPositions == {"idle", "acquired", "waiting"}

\* `if not rate_limiter.acquire(source):` (lines 227, 253)
fetch_acquire(t, source) ==
    /\ fa_pc[t] = "idle"
    /\ rl_acquire(t, source, 1)
    /\ fa_pc' = [fa_pc EXCEPT ![t] = "acquired"]
    /\ fa_source' = source
    /\ UNCHANGED net

\* acquire returned False: rate_limiter.wait_for(source, timeout=30), whose
\* result is dropped (lines 229, 255)
fetch_wait(t) ==
    /\ fa_pc[t] = "acquired"
    /\ rl_ret = "false"
    /\ rl_wait_for(t, fa_source, 1, FetchTimeout)
    /\ fa_pc' = [fa_pc EXCEPT ![t] = "waiting"]
    /\ UNCHANGED <<fa_source, net>>

\* the try block: requests.get(...) goes out, after acquire returned True or
\* after wait_for returned, whatever it returned (lines 231-245, 257-293)
fetch_request(t) ==
    /\ \/ fa_pc[t] = "acquired" /\ rl_ret = "true"
       \/ fa_pc[t] = "waiting" /\ tpc[t] = "idle"
    /\ net' = [source |-> fa_source, permit |-> rl_ret]
    /\ fa_pc' = [fa_pc EXCEPT ![t] = "idle"]
    /\ UNCHANGED <<now, cbVars, tbVars, rl_ret, fa_source>>

NextFA ==
    \/ \E t \in LimiterCallers, s \in limits :
          fetch_acquire(t, s) /\ UNCHANGED <<reVars, ptVars, mcVars, svVars, lkVars, cbHist, tbHist>>
    \/ \E t \in LimiterCallers : fetch_wait(t) /\ UNCHANGED <<reVars, ptVars, mcVars, svVars, lkVars, cbHist, tbHist>>
    \/ \E t \in LimiterCallers : fetch_request(t) /\ UNCHANGED <<reVars, ptVars, mcVars, svVars, lkVars, cbHist, tbHist>>
    \/ \E t \in LimiterCallers : rl_wait_test(t) /\ UNCHANGED <<reVars, ptVars, mcVars, faVars, svVars, lkVars, cbHist, tbHist>>
    \/ \E t \in LimiterCallers : rl_wait_poll(t) /\ UNCHANGED <<reVars, ptVars, mcVars, faVars, svVars, lkVars, cbHist, tbHist>>
    \/ Tick(MaxLimiterTime) /\ UNCHANGED <<rlVars, reVars, ptVars, mcVars, faVars, svVars, lkVars, cbHist, tbHist>>

SpecFA == Init /\ [][NextFA]_vars

NextRL ==
    \/ \E t \in LimiterCallers, s \in SourceNames, n \in 1..MaxAcquire :
          rl_acquire(t, s, n) /\ UNCHANGED <<reVars, ptVars, mcVars, faVars, svVars, lkVars, cbHist, tbHist>>
    \/ \E t \in LimiterCallers, s \in SourceNames, n \in 1..MaxAcquire, d \in 0..MaxTimeout :
          rl_wait_for(t, s, n, d) /\ UNCHANGED <<reVars, ptVars, mcVars, faVars, svVars, lkVars, cbHist, tbHist>>
    \/ \E t \in LimiterCallers : rl_wait_test(t) /\ UNCHANGED <<reVars, ptVars, mcVars, faVars, svVars, lkVars, cbHist, tbHist>>
    \/ \E t \in LimiterCallers : rl_wait_poll(t) /\ UNCHANGED <<reVars, ptVars, mcVars, faVars, svVars, lkVars, cbHist, tbHist>>
    \/ Tick(MaxLimiterTime) /\ UNCHANGED <<rlVars, reVars, ptVars, mcVars, faVars, svVars, lkVars, cbHist, tbHist>>

SpecRL == Init /\ [][NextRL]_vars

\* a caller about to call reconcile(metric_key, candidates)
InitRE ==
    /\ now = StartTime
    /\ InitBreaker
    /\ InitBucket
    /\ InitLimiter
    /\ InitTracker
    /\ InitCollector
    /\ InitValidator
    /\ InitLocks
    /\ InitFetch
    /\ metric_key \in MetricKeys
    /\ \E k \in 0..MaxCandidates : candidates \in [1..k -> Candidates]
    /\ result = NoResult

NextRE == reconcile_call /\ UNCHANGED <<now, cbVars, tbVars, rlVars, ptVars, mcVars, faVars, svVars, lkVars, cbHist, tbHist>>

SpecRE == InitRE /\ [][NextRE]_vars

\* longer lists of values that use the whole mantissa: the doubles 2^53,
\* 2^53 + 2, ..., fetched at the instant of the call
WideValues == {Num(Big + 2 * j) : j \in 0..MaxOffset}
WideCandidates == [value : WideValues, source : Sources, fetched_at : {Naive(0)}]

\* a caller about to call reconcile with a list of either kind
InitREWide ==
    /\ now = StartTime
    /\ InitBreaker
    /\ InitBucket
    /\ InitLimiter
    /\ InitTracker
    /\ InitCollector
    /\ InitValidator
    /\ InitLocks
    /\ InitFetch
    /\ metric_key \in MetricKeys
    /\ \/ \E k \in 0..MaxCandidates : candidates \in [1..k -> Candidates]
       \/ \E k \in 1..MaxWide : candidates \in [1..k -> WideCandidates]
    /\ result = NoResult

SpecREWide == InitREWide /\ [][NextRE]_vars

\* wait_and_acquire (lines 177-184) with the record of its attempts: the call
\* starts with none made, each pass of the loop body makes one
NextWA ==
    \/ \E t \in Threads, n \in 1..MaxAcquire :
          acquire(t, n) /\ UNCHANGED <<rlVars, reVars, ptVars, mcVars, faVars, svVars, lkVars, cbHist, tbHist>>
    \/ \E t \in Threads, n \in 1..MaxAcquire, d \in 0..MaxTimeout :
          /\ wait_start(t, n, d)
          /\ attempted' = [attempted EXCEPT ![t] = FALSE]
          /\ UNCHANGED <<rlVars, reVars, ptVars, mcVars, faVars, svVars, lkVars, cbHist>>
    \/ \E t \in Threads : wait_test(t) /\ UNCHANGED <<rlVars, reVars, ptVars, mcVars, faVars, svVars, lkVars, cbHist, tbHist>>
    \/ \E t \in Threads :
          /\ wait_poll(t)
          /\ attempted' = [attempted EXCEPT ![t] = TRUE]
          /\ UNCHANGED <<rlVars, reVars, ptVars, mcVars, faVars, svVars, lkVars, cbHist>>
    \/ Tick(MaxBucketTime) /\ UNCHANGED <<rlVars, reVars, ptVars, mcVars, faVars, svVars, lkVars, cbHist, tbHist>>

SpecWA == Init /\ [][NextWA]_vars

\* ProvenanceTracker: threads calling add, get and clear
NextPT ==
    \/ \E t \in Adders : \E k \in MetricKeys : \E r \in ProvenanceRecords :
          add_lookup(t, k, r) /\ UNCHANGED <<now, cbVars, tbVars, rlVars, reVars, mcVars, faVars, svVars, lkVars, cbHist, tbHist>>
    \/ \E t \in Adders : add_store(t) /\ UNCHANGED <<now, cbVars, tbVars, rlVars, reVars, mcVars, faVars, svVars, lkVars, cbHist, tbHist>>
    \/ \E t \in Adders : add_append(t) /\ UNCHANGED <<now, cbVars, tbVars, rlVars, reVars, mcVars, faVars, svVars, lkVars, cbHist, tbHist>>
    \/ \E t \in Adders : \E k \in MetricKeys :
          get(t, k) /\ UNCHANGED <<now, cbVars, tbVars, rlVars, reVars, mcVars, faVars, svVars, lkVars, cbHist, tbHist>>
    \/ \E t \in Adders : clear(t) /\ UNCHANGED <<now, cbVars, tbVars, rlVars, reVars, mcVars, faVars, svVars, lkVars, cbHist, tbHist>>

SpecPT == Init /\ [][NextPT]_vars

\* MetricsCollector: threads calling record and get_stats
NextMC ==
    \/ \E t \in Recorders : \E n \in MetricNames : \E l \in Latencies : \E e \in BOOLEAN :
          record_count(t, n, l, e) /\ UNCHANGED <<now, cbVars, tbVars, rlVars, reVars, ptVars, faVars, svVars, lkVars, cbHist, tbHist>>
    \/ \E t \in Recorders : record_rest(t) /\ UNCHANGED <<now, cbVars, tbVars, rlVars, reVars, ptVars, faVars, svVars, lkVars, cbHist, tbHist>>
    \/ \E t \in Recorders : \E n \in MetricNames :
          get_stats(t, n) /\ UNCHANGED <<now, cbVars, tbVars, rlVars, reVars, ptVars, faVars, svVars, lkVars, cbHist, tbHist>>

SpecMC == Init /\ [][NextMC]_vars

\* the payloads validate is called with: None, and every dict that differs
\* from the well-formed one in at most MaxOdd keys (missing or of another kind)
Payloads(odd) ==
    {Dict([k \in Keys |-> IF k \in odd THEN g[k] ELSE WellFormed[k]]) :
        g \in [odd -> Kinds \cup {Absent}]}

\* a caller about to call validate(sv_data, sv_schema)
InitSV ==
    /\ now = StartTime
    /\ InitBreaker
    /\ InitBucket
    /\ InitLimiter
    /\ InitEngine
    /\ InitTracker
    /\ InitCollector
    /\ InitLocks
    /\ InitFetch
    /\ sv_schema \in Schemas
    /\ \/ sv_data = NotADict
       \/ \E odd \in SUBSET Keys :
             Cardinality(odd) <= MaxOdd /\ sv_data \in Payloads(odd)
    /\ sv_ret = NoReturn

NextSV == validate_call /\ UNCHANGED <<now, cbVars, tbVars, rlVars, reVars, ptVars, mcVars, faVars, lkVars, cbHist, tbHist>>

SpecSV == InitSV /\ [][NextSV]_vars

\* CircuitBreaker with its lock, and get_status called meanwhile
NextLK ==
    \/ \E t \in Threads : lock_enter(t) /\ UNCHANGED <<rlVars, reVars, ptVars, mcVars, faVars, svVars, cbHist, tbHist>>
    \/ \E t \in Threads : lock_body(t) /\ opens /\ UNCHANGED <<rlVars, reVars, ptVars, mcVars, faVars, svVars, tbHist>>
    \/ \E t \in Threads : lock_free_step(t) /\ UNCHANGED <<rlVars, reVars, ptVars, mcVars, faVars, svVars, cbHist, tbHist>>
    \/ \E t \in Threads : get_status(t) /\ UNCHANGED <<rlVars, reVars, ptVars, mcVars, faVars, svVars, cbHist, tbHist>>
    \/ Tick(MaxTime) /\ UNCHANGED <<rlVars, reVars, ptVars, mcVars, faVars, svVars, lkVars, cbHist, tbHist>>

SpecLK == Init /\ [][NextLK]_vars

\* ======================================================================
\* CircuitBreaker properties (checked under SpecCB)
\* ======================================================================

\* now - lastFailureTime <= recoveryTimeout: the recovery window has not elapsed
WithinWindow == now - last_failure_time <= recovery_timeout

AllowedTransitions ==
    {<<CLOSED, OPEN>>, <<OPEN, HALF_OPEN>>, <<HALF_OPEN, CLOSED>>, <<HALF_OPEN, OPEN>>}

\* C1: under any interleaving of concurrent callers, every change of `state`
\* is CLOSED->OPEN, OPEN->HALF_OPEN, HALF_OPEN->CLOSED or HALF_OPEN->OPEN
\* (never OPEN->CLOSED, never CLOSED->HALF_OPEN).
C1_OnlyAllowedTransitions ==
    [][state' # state => <<state, state'>> \in AllowedTransitions]_vars

\* C1 witness: the breaker has taken all four transitions (it failed a probe
\* earlier and has now closed from HALF_OPEN).
C1_Witness ==
    /\ state = CLOSED
    /\ prevState = HALF_OPEN
    /\ hoFail.at # NoTime

\* C2: call(fn) while OPEN with now - lastFailureTime <= recoveryTimeout raises
\* CircuitBreakerOpenError in that same step (the clock has not moved), does
\* not go on to invoke fn, and leaves state, failures, successes and
\* lastFailureTime unchanged.
C2_OpenRejects ==
    [][\A t \in Threads :
         (call(t) /\ state = OPEN /\ WithinWindow)
            => /\ pc'[t] = "rejected"
               /\ now' = now
               /\ UNCHANGED <<state, failures, successes, last_failure_time>>]_vars

\* C2 witness: a caller was rejected and the breaker is OPEN exactly at the
\* edge of the window (now - lastFailureTime = recoveryTimeout).
C2_Witness ==
    /\ state = OPEN
    /\ now - last_failure_time = recovery_timeout
    /\ \E t \in Threads : pc[t] = "rejected"

\* C3: in CLOSED every reported failure increments `failures` (and records
\* lastFailureTime), every reported success resets it to 0, and the breaker
\* opens exactly when the counter reaches failureThreshold: in CLOSED the
\* counter is the number of failures since the last success and stays below
\* the threshold, and a step CLOSED->OPEN is the failureThreshold-th
\* consecutive failure.
C3_ClosedCounting ==
    /\ [](state = CLOSED =>
            failures = consecFailures /\ failures < failure_threshold)
    /\ [][\A t \in Threads :
            (state = CLOSED /\ on_failure(t))
               => /\ failures' = failures + 1
                  /\ last_failure_time' = now
                  /\ state' \in {CLOSED, OPEN}
                  /\ (state' = OPEN <=> failures' = failure_threshold)]_vars
    /\ [][\A t \in Threads :
            (state = CLOSED /\ on_success(t))
               => failures' = 0 /\ state' = CLOSED]_vars
    /\ [][(state = CLOSED /\ state' = OPEN)
               => consecFailures' = failure_threshold]_vars

\* C3 witness: the breaker has just opened from CLOSED on its
\* failureThreshold-th consecutive failure.
C3_Witness ==
    /\ state = OPEN
    /\ prevState = CLOSED
    /\ failures = failure_threshold
    /\ consecFailures = failure_threshold
    /\ last_failure_time = now

\* C4: call(fn) while OPEN with now - lastFailureTime > recoveryTimeout sets
\* state to HALF_OPEN in the locked block, before fn is invoked; the caller's
\* next step is the invocation of fn; a call that finds the breaker OPEN goes
\* on to fn only with the state set to HALF_OPEN.
C4_ProbeThroughHalfOpen ==
    /\ [][\A t \in Threads :
            (call(t) /\ state = OPEN /\ now - last_failure_time > recovery_timeout)
               => state' = HALF_OPEN /\ pc'[t] = "permitted"]_vars
    /\ [][\A t \in Threads :
            (call(t) /\ state = OPEN /\ pc'[t] # "rejected")
               => state' = HALF_OPEN]_vars
    /\ [][\A t \in Threads :
            (pc[t] = "permitted" /\ pc'[t] # "permitted")
               => pc'[t] = "running"]_vars

\* C4 witness: a probe is running in HALF_OPEN, admitted at the first instant
\* after the window (now - lastFailureTime = recoveryTimeout + 1).
C4_Witness ==
    /\ state = HALF_OPEN
    /\ prevState = OPEN
    /\ now - last_failure_time = recovery_timeout + 1
    /\ \E t \in Threads : pc[t] = "running"

\* C5: in HALF_OPEN every reported success increments `successes`; below
\* halfOpenSuccessThreshold the breaker stays HALF_OPEN, and on reaching it
\* the breaker becomes CLOSED with failures = 0 and successes = 0.
C5_HalfOpenSuccess ==
    [][\A t \in Threads :
         (state = HALF_OPEN /\ on_success(t))
            => IF successes + 1 < half_open_success_threshold
               THEN /\ state' = HALF_OPEN
                    /\ successes' = successes + 1
                    /\ failures' = failures
               ELSE /\ state' = CLOSED
                    /\ failures' = 0
                    /\ successes' = 0]_vars

\* C5 witness: the breaker closed from HALF_OPEN with both counters at 0
\* although failures had been counted before.
C5_Witness ==
    /\ state = CLOSED
    /\ prevState = HALF_OPEN
    /\ failures = 0
    /\ successes = 0
    /\ last_failure_time >= StartTime

\* C6: in HALF_OPEN a single reported failure moves the breaker to OPEN, resets
\* `successes` to 0 and sets lastFailureTime to the time of that failure,
\* whatever `successes` was; until more than recoveryTimeout has passed since
\* that failure the breaker stays OPEN and every call is rejected.
C6_HalfOpenFailure ==
    /\ [][\A t \in Threads :
            (state = HALF_OPEN /\ on_failure(t))
               => /\ state' = OPEN
                  /\ successes' = 0
                  /\ last_failure_time' = now]_vars
    /\ [](  (hoFail.at # NoTime /\ now - hoFail.at <= recovery_timeout)
              => state = OPEN /\ last_failure_time >= hoFail.at)
    /\ [][\A t \in Threads :
            (call(t) /\ hoFail.at # NoTime /\ now - hoFail.at <= recovery_timeout)
               => pc'[t] = "rejected"]_vars

\* C6 witness: a probe failed after one success had been counted, and a call
\* made recoveryTimeout later was rejected.
C6_Witness ==
    /\ hoFail.succ = 1
    /\ now - hoFail.at = recovery_timeout
    /\ \E t \in Threads : pc[t] = "rejected"
    /\ \E t \in Threads : pc[t] = "reraised"

\* C7 as stated: fn never starts executing at a moment when the breaker is
\* OPEN and the recovery window has not elapsed.
C7_NeverInvokedWhileOpen ==
    [][\A t \in Threads : invoke_func(t) => ~(state = OPEN /\ WithinWindow)]_vars

\* C7 amended: fn is invoked only by a caller whose own locked check let it
\* through, and that check lets a caller through only when the breaker is not
\* OPEN-within-the-window at the check (leaving it CLOSED or HALF_OPEN); the
\* state may change between the check and the invocation.
C7_PermittedAtCheck ==
    /\ [][\A t \in Threads :
            (call(t) /\ pc'[t] = "permitted")
               => ~(state = OPEN /\ WithinWindow) /\ state' # OPEN]_vars
    /\ [][\A t \in Threads :
            (pc'[t] = "running" /\ pc[t] # "running") => pc[t] = "permitted"]_vars

\* C7 witness: fn is running while the breaker is OPEN inside its window
\* (another caller tripped it after this caller's check).
C7_Witness ==
    /\ state = OPEN
    /\ WithinWindow
    /\ \E t \in Threads : pc[t] = "running"

\* ======================================================================
\* TokenBucket properties (checked under SpecTB)
\* ======================================================================

\* a step in which thread t runs TokenBucket.acquire(n), called directly or
\* as a poll of wait_and_acquire
AcquireStep(t, n) == acquire(t, n) \/ (wait_poll(t) /\ w[t].n = n)

\* C8: in every reachable state, after any sequence of acquire,
\* wait_and_acquire and get_available calls by concurrent callers,
\* 0 <= tokens <= capacity.
C8_TokensInRange == 0 <= tokens /\ tokens <= capacity * TokenUnit

\* C8 witness: tokens were handed out and a later acquire refilled the bucket
\* past its capacity, so that the cap discarded part of the refill.
C8_Witness ==
    /\ granted > 0
    /\ last_update > StartTime
    /\ tokens + granted * TokenUnit
          < capacity * TokenUnit + (last_update - StartTime) * rate

\* the bucket was drained at its creation instant and nothing was granted since
Drained == drainedAtStart /\ granted = capacity

\* C9: once acquires totalling `capacity` have succeeded at the creation
\* instant, acquire(1) fails while rate * (now - StartTime) < 1 token and
\* succeeds at the first attempt made with rate * (now - StartTime) >= 1.
C9_RefillAfterDrain ==
    [][\A t \in Threads :
         (Drained /\ AcquireStep(t, 1))
            => (granted' = granted + 1
                  <=> rate * (now - StartTime) >= TokenUnit)]_vars

\* C9 witness: the drained bucket has granted its first token after creation.
C9_Witness ==
    /\ drainedAtStart
    /\ granted = capacity + 1
    /\ last_update > StartTime

\* C10 as stated: an acquire(n) that returns failure leaves tokens and
\* lastUpdate as they were before the call.
C10_FailureLeavesBucketUntouched ==
    [][\A t \in Threads, n \in 1..MaxAcquire :
         (AcquireStep(t, n) /\ granted' = granted)
            => tokens' = tokens /\ last_update' = last_update]_vars

\* C10 amended: acquire(n) always commits the lazy refill and sets lastUpdate
\* to the current time; on failure nothing is deducted (tokens is the refilled
\* amount, which is below n), on success exactly n tokens are subtracted from
\* the refilled amount.  (An acquire that changes no field of the bucket is a
\* refused one made at last_update with nothing to refill: the statement is
\* about the steps that change one.)
C10_AcquireEffect ==
    [][tbVars' # tbVars =>
       \A t \in Threads, n \in 1..MaxAcquire :
         AcquireStep(t, n)
            => /\ last_update' = now
               /\ IF granted' = granted
                  THEN tokens' = Refilled /\ Refilled < n * TokenUnit
                  ELSE /\ granted' = granted + n
                       /\ tokens' = Refilled - n * TokenUnit
                       /\ tokens' >= 0]_vars

\* C10 witness: only refused acquires have run since the bucket was drained at
\* creation, and they have moved lastUpdate and left a partial refill behind.
C10_Witness ==
    /\ Drained
    /\ last_update > StartTime
    /\ tokens > 0
    /\ tokens < TokenUnit

\* C11: wait_and_acquire(n, timeout) terminates: under a fair schedule a
\* caller inside the method is eventually back outside it, whether or not n
\* tokens ever become available, unless it is asleep in time.sleep when the
\* explored horizon of the clock ends.  It polls only while the timeout has not elapsed; it returns True only in a
\* poll that deducts exactly n tokens from the refilled amount; a refused poll
\* deducts nothing; it returns False at the first loop test made once the
\* timeout has elapsed, and that step leaves the bucket as it is.
C11_WaitTerminates ==
    /\ \A t \in Threads :
          [](tpc[t] # "idle"
                => <>(\/ tpc[t] = "idle"
                      \/ tpc[t] = "wait_sleep" /\ now = MaxWaitTime))
    /\ [][\A t \in Threads :
            /\ (tpc[t] = "wait_loop" /\ tpc'[t] = "wait_acquire")
                  => now - w[t].start < w[t].timeout
            /\ (tpc[t] = "wait_loop" /\ tpc'[t] = "idle")
                  => /\ now - w[t].start >= w[t].timeout
                     /\ UNCHANGED <<tokens, last_update, granted>>
            /\ (tpc[t] = "wait_acquire" /\ tpc'[t] = "idle")
                  => /\ granted' = granted + w[t].n
                     /\ tokens' = Refilled - w[t].n * TokenUnit
            /\ (tpc[t] = "wait_acquire" /\ tpc'[t] = "wait_sleep")
                  => /\ granted' = granted
                     /\ Refilled < w[t].n * TokenUnit]_vars

\* C11 witness: a caller that waited with a positive timeout is at the loop
\* test with the timeout elapsed: every poll it made was refused and its next
\* step returns False.
C11_Witness ==
    \E t \in Threads :
        /\ tpc[t] = "wait_loop"
        /\ w[t].timeout > 0
        /\ now - w[t].start >= w[t].timeout

\* ======================================================================
\* RateLimiter properties (checked under SpecRL)
\* ======================================================================

\* C12: for a name without an entry, acquire and wait_for return True at once
\* (the caller does not enter a wait) and leave the clock, the bucket and the
\* breaker as they are; for a configured name acquire performs the bucket's
\* acquire and returns its result, and wait_for returns True exactly in a
\* successful poll of the bucket's wait and False exactly when that wait
\* gives up.
C12_UnknownSourcePasses ==
    [][\A t \in LimiterCallers, n \in 1..MaxAcquire :
         /\ \A s \in SourceNames \ limits :
               /\ rl_acquire(t, s, n)
                     => rl_ret' = "true" /\ UNCHANGED <<now, cbVars, tbVars>>
               /\ \A d \in 0..MaxTimeout :
                     rl_wait_for(t, s, n, d)
                        => rl_ret' = "true" /\ UNCHANGED <<now, cbVars, tbVars>>
         /\ \A s \in limits :
               /\ rl_acquire(t, s, n)
                     => /\ bucket_acquire(n)
                        /\ rl_ret' = Bool(granted' # granted)
               /\ \A d \in 0..MaxTimeout :
                     rl_wait_for(t, s, n, d) => tpc'[t] = "wait_loop"
         /\ (tpc[t] = "wait_loop" /\ tpc'[t] = "idle") => rl_ret' = "false"
         /\ (tpc[t] = "wait_acquire" /\ tpc'[t] = "idle") => rl_ret' = "true"]_vars

\* C12 witness: a call has returned True although the bucket never granted a
\* token: it named a source without an entry.
C12_Witness ==
    /\ rl_ret = "true"
    /\ granted = 0
    /\ tokens = capacity * TokenUnit
    /\ last_update = StartTime

\* ======================================================================
\* ReconciliationEngine properties (checked under SpecRE)
\* ======================================================================

called == result.status # "pending"
returned == result.status = "returned"

\* the candidates of the call that pass the staleness filter
valid == valid_candidates(metric_key, candidates)

\* d.get("issue", absent)
issue_of(d) == IF "issue" \in DOMAIN d THEN d.issue ELSE "<absent>"

\* the instant fetched_at names lies more than / at most the metric's maximum
\* age before the call (a string that names no instant has no age)
Older(metric, c) ==
    c.fetched_at.kind \in {"naive", "aware"} /\ c.fetched_at.age > MAX_AGE(metric)
WithinAge(metric, c) ==
    c.fetched_at.kind \in {"naive", "aware"} /\ c.fetched_at.age <= MAX_AGE(metric)

Candidate(v, source, fetched_at) ==
    [value |-> v, source |-> source, fetched_at |-> fetched_at]

\* C13 as stated: reconcile never raises; for every metric key and candidate
\* list it returns a result whose confidence is one of HIGH, MEDIUM, LOW,
\* VERY_LOW and whose diagnostics is a map.
C13_ReconcileNeverRaises ==
    called => /\ returned
              /\ result.dict.confidence \in ConfidenceLevel
              /\ "diagnostics" \in DOMAIN result.dict

\* C14 as stated: every returned result carries all five fields value,
\* confidence, provenance, issue and diagnostics.
C14_AllFiveFields ==
    returned =>
        DOMAIN result.dict = {"value", "confidence", "provenance", "issue", "diagnostics"}

\* C14 amended: every returned result carries value, confidence, provenance
\* and diagnostics; the issue key is present, with one of the four issue
\* codes, exactly on the VERY_LOW and LOW paths, and absent from HIGH and
\* MEDIUM results.
C14_FieldsByPath ==
    returned =>
        /\ {"value", "confidence", "provenance", "diagnostics"} \subseteq DOMAIN result.dict
        /\ DOMAIN result.dict
              \subseteq {"value", "confidence", "provenance", "issue", "diagnostics"}
        /\ "issue" \in DOMAIN result.dict <=> result.dict.confidence \in {LOW, VERY_LOW}
        /\ "issue" \in DOMAIN result.dict
              => result.dict.issue \in {"missing_data", "stale_data",
                                        "no_numeric_values", "conflicting_sources"}

\* C14 witness: a MEDIUM result, which has no issue key.
C14_Witness ==
    /\ returned
    /\ result.dict.confidence = MEDIUM
    /\ "issue" \notin DOMAIN result.dict

\* C15 as stated: the result is value None with VERY_LOW exactly when the list
\* is empty (issue "missing_data") or every candidate is older than the
\* metric's maximum age (issue "stale_data"); provenance is empty in both cases.
C15_VeryLowIffAllStale ==
    called =>
        /\ candidates = << >>
              => /\ returned
                 /\ result.dict.value = None
                 /\ result.dict.confidence = VERY_LOW
                 /\ issue_of(result.dict) = "missing_data"
                 /\ result.dict.provenance = << >>
        /\ (/\ candidates # << >>
            /\ \A i \in 1..Len(candidates) : Older(metric_key, candidates[i]))
              => /\ returned
                 /\ result.dict.value = None
                 /\ result.dict.confidence = VERY_LOW
                 /\ issue_of(result.dict) = "stale_data"
                 /\ result.dict.provenance = << >>
        /\ (returned /\ result.dict.value = None /\ result.dict.confidence = VERY_LOW)
              => \A i \in 1..Len(candidates) : Older(metric_key, candidates[i])

\* C16 as stated: whenever the returned value is None, the confidence is
\* VERY_LOW and issue is a string.
C16_NullIsVeryLow ==
    (returned /\ result.dict.value = None)
        => /\ result.dict.confidence = VERY_LOW
           /\ "issue" \in DOMAIN result.dict

\* C16 amended: whenever the returned value is None, issue is one of
\* "missing_data", "stale_data", "no_numeric_values"; the confidence is
\* VERY_LOW when no candidate passed the staleness filter and LOW when some
\* did but none has a numeric value.
C16_NullValueGrades ==
    (returned /\ result.dict.value = None)
        => /\ issue_of(result.dict) \in {"missing_data", "stale_data", "no_numeric_values"}
           /\ result.dict.confidence = IF valid = << >> THEN VERY_LOW ELSE LOW
           /\ issue_of(result.dict) = "no_numeric_values" <=> valid # << >>

\* C16 witness: a None value graded LOW.
C16_Witness ==
    /\ returned
    /\ result.dict.value = None
    /\ result.dict.confidence = LOW

\* the list without its None-valued candidates
WithoutNone(cands) == SelectSeq(cands, LAMBDA c : ~c.value.null)

\* C17: when candidates pass the staleness filter and all of them have value
\* None, the result is value None, LOW, "no_numeric_values"; None values are
\* never counted: with a numeric value among them, the outcome (return or
\* raise), the value, the confidence and every statistic in diagnostics are
\* those of the call made without the None-valued candidates.
C17_NoNumericValues ==
    called =>
        /\ (valid # << >> /\ \A i \in 1..Len(valid) : valid[i].value.null)
              => /\ returned
                 /\ result.dict.value = None
                 /\ result.dict.confidence = LOW
                 /\ issue_of(result.dict) = "no_numeric_values"
        /\ (\E i \in 1..Len(valid) : ~valid[i].value.null)
              => LET r == reconcile(metric_key, WithoutNone(candidates))
                 IN  /\ result.status = r.status
                     /\ returned =>
                          /\ result.dict.value = r.dict.value
                          /\ result.dict.confidence = r.dict.confidence
                          /\ DOMAIN result.dict.diagnostics = DOMAIN r.dict.diagnostics
                          /\ \A k \in DOMAIN r.dict.diagnostics \ {"candidate_count"} :
                                result.dict.diagnostics[k] = r.dict.diagnostics[k]

\* C17 witness: two or more candidates passed the filter, none numeric.
C17_Witness ==
    /\ returned
    /\ issue_of(result.dict) = "no_numeric_values"
    /\ Len(valid) >= 2

\* Scenario A: market_cap, (100, "A", now), (105, "B", now), (260, "C", 72 h ago)
ScenarioA ==
    reconcile("market_cap",
              <<Candidate(Num(100), "A", Naive(0)), Candidate(Num(105), "B", Naive(0)),
                Candidate(Num(260), "C", Naive(72 * 3600))>>)

\* C18 as stated: with at least one candidate of age <= maxAge(metric) in the
\* list, the candidates older than maxAge(metric) have no influence: the call
\* gives what the call without them gives.  Scenario A gives HIGH, 102.5.
C18_StaleHasNoInfluence ==
    /\ ScenarioA.status = "returned"
    /\ ScenarioA.dict.confidence = HIGH
    /\ ScenarioA.dict.value = Num(205)
    /\ (called /\ \E i \in 1..Len(candidates) : WithinAge(metric_key, candidates[i]))
          => result = reconcile(metric_key,
                                SelectSeq(candidates, LAMBDA c : ~Older(metric_key, c)))

\* the list with every unparsable fetched_at replaced by the instant of the call
Freshened(cands) ==
    [i \in 1..Len(cands) |->
        IF cands[i].fetched_at.kind = "text"
        THEN [cands[i] EXCEPT !.fetched_at = Naive(0)]
        ELSE cands[i]]

\* C19: a candidate whose fetched_at cannot be parsed passes the staleness
\* filter; the values that enter the statistics, the statistics reported and
\* the candidate count are those of the same list with these timestamps fresh;
\* a list made only of such candidates never gives "stale_data".
C19_UnparsableIsKept ==
    called =>
        LET fresh == valid_candidates(metric_key, Freshened(candidates))
        IN  /\ \A i \in 1..Len(candidates) :
                  candidates[i].fetched_at.kind = "text"
                     => \E j \in 1..Len(valid) : valid[j] = candidates[i]
            /\ Len(valid) = Len(fresh)
            /\ values(valid) = values(fresh)
            /\ returned =>
                  /\ "candidate_count" \in DOMAIN result.dict.diagnostics
                        => result.dict.diagnostics.candidate_count = Len(fresh)
                  /\ "median" \in DOMAIN result.dict.diagnostics
                        => result.dict.diagnostics.median = median(values(fresh))
                  /\ "variance" \in DOMAIN result.dict.diagnostics
                        => result.dict.diagnostics.variance = variance(values(fresh))
                  /\ "mean" \in DOMAIN result.dict.diagnostics
                        => result.dict.diagnostics.mean = mean(values(fresh))
            /\ (/\ candidates # << >>
                /\ \A i \in 1..Len(candidates) : candidates[i].fetched_at.kind = "text")
                  => /\ valid = candidates
                     /\ returned => issue_of(result.dict) # "stale_data"

\* C19 witness: a result computed from two numeric candidates whose timestamps
\* cannot be parsed.
C19_Witness ==
    /\ returned
    /\ Len(candidates) = 2
    /\ \A i \in 1..2 : candidates[i].fetched_at.kind = "text" /\ ~candidates[i].value.null
    /\ candidates[1].value # candidates[2].value
    /\ result.dict.diagnostics.candidate_count = 2

\* Four candidates that agree, listed from the oldest to the latest, the most
\* trusted source being the oldest
FourAgreeing ==
    <<Candidate(Num(100), "nse_india", Naive(3 * 3600)),
      Candidate(Num(101), "fmp", Naive(2 * 3600)),
      Candidate(Num(102), "gnews", Naive(1 * 3600)),
      Candidate(Num(103), "unlisted", Naive(0))>>

\* the place of cs[j] when cs is listed latest fetched_at first, candidates
\* with the same fetched_at in list order
RecencyRank(cs, j) ==
    1 + Cardinality({i \in 1..Len(cs) :
                        \/ FetchedAfter(cs[i], cs[j])
                        \/ i < j /\ ~FetchedAfter(cs[j], cs[i])})

\* C20: when the numeric values that passed the filter have a median other
\* than 0 and (max - min) / |median| <= 0.15, the result is HIGH, its value is
\* the median (the middle value, or the average of the two middle values), and
\* its provenance lists the min(3, survivors) candidates that passed the filter
\* with the latest fetched_at, latest first (list order among equal
\* timestamps), whatever the trust of their sources.
C20_AgreementPath ==
    \* the fixed list of four, evaluated once per call of the empty list
    /\ candidates = << >> =>
       LET r == reconcile("revenue", FourAgreeing)
       IN  /\ r.status = "returned"
           /\ r.dict.confidence = HIGH
           /\ r.dict.value = Num(203)
           /\ [i \in 1..3 |-> r.dict.provenance[i].source] = <<"unlisted", "gnews", "fmp">>
    /\ called =>
        LET xs == values(valid)
            v == values_sorted(xs)
            n == Len(xs)
            lo == min_val(xs)
            hi == max_val(xs)
            m2 == IF n % 2 = 1 THEN 2 * v[(n + 1) \div 2] ELSE v[n \div 2] + v[(n \div 2) + 1]
        IN  (/\ n > 0
             /\ m2 # 0
             /\ 100 * 2 * (hi - lo) <= PRIMARY_TOLERANCE * Abs(m2))
              => /\ returned
                 /\ result.dict.confidence = HIGH
                 /\ result.dict.value = Num(m2)
                 /\ LET prov == result.dict.provenance
                        k == IF Len(valid) < 3 THEN Len(valid) ELSE 3
                    IN  /\ Len(prov) = k
                        /\ \A j \in 1..Len(valid) :
                              RecencyRank(valid, j) <= k
                                 => prov[RecencyRank(valid, j)]
                                       = Candidate(valid[j].value, valid[j].source,
                                                   valid[j].fetched_at)

\* C20 witness: a HIGH result over two distinct values whose provenance puts a
\* candidate from the less trusted source first because it is the later one.
C20_Witness ==
    /\ returned
    /\ result.dict.confidence = HIGH
    /\ Len(result.dict.provenance) >= 2
    /\ result.dict.provenance[1].value # result.dict.provenance[2].value
    /\ SOURCE_TRUST(result.dict.provenance[1].source)
          < SOURCE_TRUST(result.dict.provenance[2].source)
    /\ FetchedAfter(result.dict.provenance[1], result.dict.provenance[2])
    /\ ~result.dict.provenance[1].value.null
    /\ ~result.dict.provenance[2].value.null

\* C21 as stated: when the numeric values that passed the filter are all one
\* value v, whatever v, the variance is 0 and the result is HIGH with value v.
C21_IdenticalValuesHigh ==
    called =>
        LET xs == values(valid)
        IN  (xs # << >> /\ \A i \in 1..Len(xs) : xs[i] = xs[1])
              => /\ returned
                 /\ result.dict.confidence = HIGH
                 /\ result.dict.value = Num(2 * xs[1])
                 /\ result.dict.diagnostics.variance[1] = 0
                 /\ result.dict.diagnostics.variance[2] # 0

\* C21 amended: when the numeric values that passed the filter are all one
\* value v other than 0, the variance is 0 and the result is HIGH with value
\* v; when they are all 0 the median is 0 and the variance infinite: the call
\* never gives HIGH, and what it returns is LOW, "conflicting_sources", value 0.
C21_IdenticalNonZeroHigh ==
    called =>
        LET xs == values(valid)
        IN  (xs # << >> /\ \A i \in 1..Len(xs) : xs[i] = xs[1])
              => IF xs[1] # 0
                 THEN /\ returned
                      /\ result.dict.confidence = HIGH
                      /\ result.dict.value = Num(2 * xs[1])
                      /\ result.dict.diagnostics.variance[1] = 0
                      /\ result.dict.diagnostics.variance[2] # 0
                 ELSE returned =>
                      /\ result.dict.confidence = LOW
                      /\ issue_of(result.dict) = "conflicting_sources"
                      /\ result.dict.value = Num(0)
                      /\ result.dict.diagnostics.variance = Infinity

\* C21 witness: two candidates from different sources with the same value
\* other than 0, graded HIGH.
C21_Witness ==
    /\ returned
    /\ Len(valid) = 2
    /\ ~valid[1].value.null
    /\ valid[1].value = valid[2].value
    /\ valid[1].value # Num(0)
    /\ valid[1].source # valid[2].source
    /\ result.dict.confidence = HIGH

\* C22: when the median of the numeric values that passed the filter is 0 the
\* variance is infinite: no division by zero is raised, the result is never
\* HIGH, and the call goes on to the trust scores (what it returns carries the
\* infinite variance and the top source; the only exception it can raise is
\* the one of sorting the scored candidates).
C22_ZeroMedian ==
    called =>
        LET xs == values(valid)
        IN  (xs # << >> /\ median(xs) = 0)
              => /\ result.status = "raised"
                    => result.error = "TypeError" /\ sort_raises(scored(valid))
                 /\ returned
                    => /\ result.dict.confidence \in {MEDIUM, LOW}
                       /\ result.dict.diagnostics.variance = Infinity
                       /\ "top_source" \in DOMAIN result.dict.diagnostics

\* C22 witness: a median of 0 from two values other than 0, with a result.
C22_Witness ==
    /\ returned
    /\ Len(values(valid)) = 2
    /\ values(valid)[1] # 0
    /\ median(values(valid)) = 0
    /\ result.dict.confidence = LOW

\* Scenario C: two sources 20% apart, (100, "unlisted", now), (120, "nse_india", now)
ScenarioC ==
    reconcile("market_cap",
              <<Candidate(Num(100), "unlisted", Naive(0)),
                Candidate(Num(120), "nse_india", Naive(0))>>)

\* C23 as stated: when the variance is above 0.15 and the values of the two
\* highest-scored candidates satisfy |top - second| / |top| <= 0.30, the
\* result is MEDIUM and its value is the median of all numeric values that
\* passed the filter.  Scenario C gives MEDIUM, 110.
C23_SecondaryPath ==
    /\ ScenarioC.status = "returned"
    /\ ScenarioC.dict.confidence = MEDIUM
    /\ ScenarioC.dict.value = Num(220)
    /\ called =>
        LET xs == values(valid)
            sc == scored_candidates(scored(valid))
        IN  (/\ xs # << >>
             /\ ~AtMost(variance(xs), PRIMARY_TOLERANCE)
             /\ Len(sc) >= 2
             /\ sc[1].value.num # 0
             /\ 100 * Abs(sc[1].value.num - sc[2].value.num)
                   <= SECONDARY_TOLERANCE * Abs(sc[1].value.num))
              => /\ returned
                 /\ result.dict.confidence = MEDIUM
                 /\ result.dict.value = Num(median(xs))

\* the score as the specification writes it, times 100 * 48 * 3600:
\* sourceTrust(source) + 0.3 * max(0, 1 - ageHours / 48); a candidate whose
\* fetched_at names no instant has no age and takes the weight the code gives it
spec_score(c) ==
    SOURCE_TRUST(c.source) * (48 * 3600)
      + (IF c.fetched_at.kind = "text"
         THEN 30 * (24 * 3600)
         ELSE 30 * Max(0, 48 * 3600 - c.fetched_at.age))

\* cs[i] has the highest spec_score among the candidates of cs other than cs[j]
\* (j = 0: among all)
TopBut(cs, i, j) ==
    /\ i \in 1..Len(cs)
    /\ i # j
    /\ \A k \in 1..Len(cs) : k # j => spec_score(cs[i]) >= spec_score(cs[k])

\* Scenario B: (100, trust 0.5, 40 h old) against (150, trust 0.95, 1 h old)
ScenarioB ==
    reconcile("market_cap",
              <<Candidate(Num(100), "unlisted", Naive(40 * 3600)),
                Candidate(Num(150), "nse_india", Naive(1 * 3600))>>)

\* C24 as stated: when the variance is above 0.15 and the secondary check does
\* not pass, the result is LOW, "conflicting_sources", and its value is the
\* value of the candidate with the highest score, score = sourceTrust(source)
\* + 0.3 * max(0, 1 - ageHours / 48).  Scenario B gives LOW, 150.
C24_ConflictPath ==
    /\ ScenarioB.status = "returned"
    /\ ScenarioB.dict.confidence = LOW
    /\ ScenarioB.dict.value = Num(300)
    /\ issue_of(ScenarioB.dict) = "conflicting_sources"
    /\ called =>
        LET xs == values(valid)
            cs == scored(valid)
        IN  (/\ xs # << >>
             /\ ~AtMost(variance(xs), PRIMARY_TOLERANCE)
             /\ \A i, j \in 1..Len(cs) :
                   (TopBut(cs, i, 0) /\ TopBut(cs, j, i))
                      => ~(/\ cs[i].value.num # 0
                           /\ 100 * Abs(cs[i].value.num - cs[j].value.num)
                                 <= SECONDARY_TOLERANCE * Abs(cs[i].value.num)))
              => /\ returned
                 /\ result.dict.confidence = LOW
                 /\ issue_of(result.dict) = "conflicting_sources"
                 /\ \E i \in 1..Len(cs) :
                       /\ TopBut(cs, i, 0)
                       /\ result.dict.value = Num(2 * cs[i].value.num)

\* C25 as stated: a "conflicting_sources" result has exactly one provenance
\* entry, the top-scored candidate: its source is diagnostics.top_source and
\* its value is the returned value.
C25_ConflictProvenance ==
    (returned /\ issue_of(result.dict) = "conflicting_sources")
        => /\ Len(result.dict.provenance) = 1
           /\ result.dict.provenance[1].source = result.dict.diagnostics.top_source
           /\ ~result.dict.provenance[1].value.null
           /\ result.dict.value = Num(2 * result.dict.provenance[1].value.num)

\* the list with the candidates at places i and i + 1 exchanged
Swapped(cs, i) ==
    [k \in 1..Len(cs) |-> IF k = i THEN cs[i + 1] ELSE IF k = i + 1 THEN cs[i] ELSE cs[k]]

\* the fetched_at of the provenance entries, in order
Stamped(prov) == [k \in 1..Len(prov) |-> prov[k].fetched_at]

\* C26 as stated: the call changes neither the metric key nor the candidates;
\* its outcome is the one the same list gives at the same instant; and the
\* list with two neighbours exchanged (hence any permutation of it) gives the
\* same outcome, value, confidence, issue and diagnostics.
C26_OrderIndependent ==
    [][reconcile_call =>
         /\ UNCHANGED <<metric_key, candidates, now>>
         /\ result' = reconcile(metric_key, candidates)
         /\ \A i \in 1..(Len(candidates) - 1) :
               LET r == reconcile(metric_key, Swapped(candidates, i))
               IN  /\ r.status = result'.status
                   /\ r.status = "returned"
                        => /\ r.dict.value = result'.dict.value
                           /\ r.dict.confidence = result'.dict.confidence
                           /\ issue_of(r.dict) = issue_of(result'.dict)
                           /\ r.dict.diagnostics = result'.dict.diagnostics]_vars

\* C26 amended: as stated, except that diagnostics.mean and
\* diagnostics.std_dev come from floating-point sums taken in list order:
\* they are the same for every order when the sums are exact (integer values
\* below 2^53) and can differ in rounding otherwise; every other diagnostic,
\* and the fetched_at of every provenance entry, is the same for every order.
C26_OrderIndependentButSums ==
    [][reconcile_call =>
         /\ UNCHANGED <<metric_key, candidates, now>>
         /\ result' = reconcile(metric_key, candidates)
         /\ \A i \in 1..(Len(candidates) - 1) :
               LET r == reconcile(metric_key, Swapped(candidates, i))
               IN  /\ r.status = result'.status
                   /\ r.status = "returned"
                        => /\ r.dict.value = result'.dict.value
                           /\ r.dict.confidence = result'.dict.confidence
                           /\ issue_of(r.dict) = issue_of(result'.dict)
                           /\ Stamped(r.dict.provenance) = Stamped(result'.dict.provenance)
                           /\ DOMAIN r.dict.diagnostics = DOMAIN result'.dict.diagnostics
                           /\ \A k \in DOMAIN r.dict.diagnostics :
                                 \/ r.dict.diagnostics[k] = result'.dict.diagnostics[k]
                                 \/ /\ k \in {"mean", "std_dev"}
                                    /\ \E j \in 1..Len(candidates) :
                                          candidates[j].value.num >= Big]_vars

\* C26 witness: a result whose mean is not the one the same candidates give
\* with the last two exchanged, the value and the confidence being the same.
C26_Witness ==
    /\ returned
    /\ Len(candidates) = 3
    /\ "mean" \in DOMAIN result.dict.diagnostics
    /\ reconcile(metric_key, Swapped(candidates, 2)).dict.diagnostics.mean
          # result.dict.diagnostics.mean
    /\ reconcile(metric_key, Swapped(candidates, 2)).dict.value = result.dict.value
    /\ reconcile(metric_key, Swapped(candidates, 2)).dict.confidence = result.dict.confidence

\* ----------------------------------------------------------------------
\* C27: for every metric key, get(key) returns exactly the records added
\* under that key since the last clear(), in insertion order with duplicates
\* kept and no record altered, and stores nothing (so a key without records
\* gives an empty list and stays out of the dict); an add to one key never
\* changes another key's list; after clear() every key gives an empty list.
\* (Calls of add that a clear() ran across belong to neither side of that
\* clear and are left out.)
C27_TrackerLists ==
    [][/\ \A t \in Adders : \A k \in MetricKeys :
            get(t, k) /\ ~pt_overlapped
                => /\ pt_got'.items = pt_log[k]
                   /\ records' = records
       /\ \A t \in Adders : \A k \in MetricKeys :
            (add_store(t) \/ add_append(t)) /\ k # pt_arg[t].key
                => records'[k] = records[k]
       /\ \A t \in Adders : \A k \in MetricKeys :
            clear(t) => ~records'[k].present]_vars

\* how often record r occurs in the list xs
Occurrences(xs, r) == Cardinality({i \in 1..Len(xs) : xs[i] = r})

\* ----------------------------------------------------------------------
\* C28: concurrent add calls are safe: once every add() has returned, each
\* key's list holds every record added under that key exactly as often as it
\* was added, none lost or duplicated, whatever the interleaving, the first
\* add for a key included.
C28_NoRecordLost ==
    (\A t \in Adders : pt_pc[t] = "idle") /\ ~pt_overlapped
        => \A k \in MetricKeys : \A r \in ProvenanceRecords :
              Occurrences(records[k].items, r) = Occurrences(pt_log[k], r)

\* the latencies of the record() calls for name n that returned, in order,
\* and how many of those calls had error=True
LatenciesOf(n) == [i \in 1..Len(mc_log[n]) |-> mc_log[n][i].latency]
ErrorsOf(n) == Cardinality({i \in 1..Len(mc_log[n]) : mc_log[n][i].error})

\* ----------------------------------------------------------------------
\* C29: after any sequence of record calls, get_stats(name) reports count =
\* the number of record calls for the name, errors = the number of those with
\* error=True (so errors <= count), error_rate = errors / count and
\* avg_latency = total_latency / count, total_latency being the latencies
\* added up in the order of the calls; for a name never recorded both rates
\* are 0 without a division error; get_stats changes no entry and creates
\* none.
C29_StatsOfCalls ==
    [][\A t \in Recorders : \A n \in MetricNames :
          get_stats(t, n)
              => /\ mc_stats'.name = n
                 /\ mc_stats'.count = Len(mc_log[n])
                 /\ mc_stats'.errors = ErrorsOf(n)
                 /\ mc_stats'.errors <= mc_stats'.count
                 /\ mc_stats'.count > 0
                        => /\ mc_stats'.error_rate = <<ErrorsOf(n), Len(mc_log[n])>>
                           /\ mc_stats'.avg_latency = <<float_sum(LatenciesOf(n)), Len(mc_log[n])>>
                 /\ mc_stats'.count = 0
                        => /\ mc_stats'.error_rate = <<0, 1>>
                           /\ mc_stats'.avg_latency = <<0, 1>>
                           /\ ~metrics'[n].present
                 /\ metrics' = metrics]_vars

\* get_stats has reported a name recorded twice, once with an error and with
\* a latency that is not 0, while the other name was never recorded
C29_Witness ==
    /\ mc_stats.name = "alpha_vantage"
    /\ mc_stats.count = 2
    /\ mc_stats.errors = 1
    /\ mc_stats.avg_latency[1] > 0
    /\ ~metrics["fmp"].present

\* no record() is under way
NoRecordUnderWay == \A t \in Recorders : mc_pc[t] = "idle"

\* get_stats reports only whole record() calls
WholeRecordsSeen ==
    \A t \in Recorders : \A n \in MetricNames :
        get_stats(t, n)
            => /\ mc_stats'.count = Len(mc_log[n])
               /\ mc_stats'.errors = ErrorsOf(n)
               /\ mc_stats'.avg_latency[1] = float_sum(LatenciesOf(n))

\* ----------------------------------------------------------------------
\* C30 (as stated): for any interleaving of concurrent record calls no update
\* is lost: once the calls have returned, count, errors and total_latency of
\* each name are the sums over all calls made, the same for every order of
\* the calls, and get_stats never observes a half-applied record.
C30_SumsWhateverOrder ==
    [][/\ NoRecordUnderWay'
            => \A n \in MetricNames :
                  /\ metrics'[n].count = Len(mc_log'[n])
                  /\ metrics'[n].errors = ErrorsOf(n)'
                  /\ \A i \in 1..(Len(mc_log'[n]) - 1) :
                        metrics'[n].total_latency = float_sum(Swapped(LatenciesOf(n)', i))
       /\ WholeRecordsSeen]_vars

\* C30 (amended): no update is lost: once the calls have returned, count and
\* errors of each name are the numbers of calls and of calls with error=True,
\* whatever the order; total_latency is the floating-point sum of the
\* latencies in the order in which the calls took the lock, which is their
\* exact sum, the same for every order, when that sum is below 2^53; and
\* get_stats never observes a half-applied record.
C30_SumsInLockOrder ==
    [][/\ NoRecordUnderWay'
            => \A n \in MetricNames :
                  /\ metrics'[n].count = Len(mc_log'[n])
                  /\ metrics'[n].errors = ErrorsOf(n)'
                  /\ metrics'[n].total_latency = float_sum(LatenciesOf(n)')
                  /\ Sum(LatenciesOf(n)') < Big
                        => metrics'[n].total_latency = Sum(LatenciesOf(n)')
       /\ WholeRecordsSeen]_vars

\* three calls for one name have returned, two of them with an error, and
\* the total they left differs from the one another order would have left
C30_Witness ==
    /\ NoRecordUnderWay
    /\ Len(mc_log["alpha_vantage"]) = 3
    /\ metrics["alpha_vantage"].count = 3
    /\ metrics["alpha_vantage"].errors = 2
    /\ \E i \in 1..2 :
          metrics["alpha_vantage"].total_latency
              # float_sum(Swapped(LatenciesOf("alpha_vantage"), i))

\* the required fields of the schema that the payload lacks
MissingRequired ==
    {sv_schema.required[i] : i \in {j \in 1..Len(sv_schema.required) :
                                       sv_data.fields[sv_schema.required[j]] = Absent}}

\* ----------------------------------------------------------------------
\* C31: validate always returns a pair and never raises; when a field listed
\* in the schema's "required" is absent from the payload it returns False
\* with the message "Missing required field" naming such a field, whatever
\* the other fields are (type errors in them included: required fields are
\* checked first); it returns (True, "") only when every required field is
\* present.
C31_RequiredFirst ==
    sv_ret # NoReturn
        => /\ sv_ret[1] \in BOOLEAN
           /\ sv_ret[1] <=> sv_ret[2] = NoMessage
           /\ sv_data.dict /\ MissingRequired # {}
                 => /\ ~sv_ret[1]
                    /\ sv_ret[2].text = "Missing required field"
                    /\ sv_ret[2].field \in MissingRequired
           /\ sv_ret[1] => sv_data.dict /\ MissingRequired = {}
           /\ ~sv_data.dict => sv_ret = <<FALSE, ValidationError>>

\* validate has returned for a payload that lacks a required field and has
\* a value of the wrong type under another key
C31_Witness ==
    /\ sv_ret # NoReturn
    /\ sv_schema = ADAPTER_RESPONSE_SCHEMA
    /\ sv_data.dict
    /\ sv_data.fields["source_id"] = Absent
    /\ sv_data.fields["meta"] = "str"
    /\ sv_ret = <<FALSE, Missing("source_id")>>

\* the coarse type the adapter response contract gives each property
ContractType(k) ==
    IF k = "raw_value" THEN {"number", "null"} ELSE IF k = "meta" THEN {"object"} ELSE {"str"}

\* ----------------------------------------------------------------------
\* C32: against the adapter response schema, a payload that has all required
\* fields is accepted if and only if every declared property that is present
\* matches its coarse type: strings for company_id, metric, source_id,
\* fetched_at, raw_units, raw_currency and reported_at, an object for meta,
\* a number or null for raw_value.
C32_AdapterTypes ==
    (/\ sv_ret # NoReturn
     /\ sv_schema = ADAPTER_RESPONSE_SCHEMA
     /\ sv_data.dict
     /\ MissingRequired = {})
        => (sv_ret[1] <=> \A k \in Keys :
                             sv_data.fields[k] = Absent \/ sv_data.fields[k] \in ContractType(k))

\* ----------------------------------------------------------------------
\* C33: conservation under concurrency: for any interleaving of acquire and
\* wait_and_acquire callers on the shared bucket, the tokens granted since
\* its creation (full, at StartTime) never exceed capacity + rate * (now -
\* StartTime); no token is granted twice: what was granted and what is left
\* never exceed the capacity plus the refills made up to last_update.
C33_Conservation ==
    /\ granted * TokenUnit <= capacity * TokenUnit + rate * (now - StartTime)
    /\ tokens + granted * TokenUnit
          <= capacity * TokenUnit + rate * (last_update - StartTime)
    /\ last_update <= now

\* every token the bound allows has been granted, after refills, and a
\* caller of wait_and_acquire was refused meanwhile and sleeps
C33_Witness ==
    /\ now > StartTime
    /\ tokens = 0
    /\ granted * TokenUnit = capacity * TokenUnit + rate * (now - StartTime)
    /\ \E t \in Threads : tpc[t] = "wait_sleep"

\* ----------------------------------------------------------------------
\* C34: every read and every write of the breaker's state, failures,
\* successes and last_failure_time, in call, _on_success, _on_failure and in
\* RateLimiter.get_status, is made by a thread that holds the breaker's
\* lock; the lock is not held while func runs.
C34_LockDiscipline ==
    [][/\ <<state, failures, successes, last_failure_time>>'
             # <<state, failures, successes, last_failure_time>>
             => \E t \in Threads : cb_lock = t /\ lock_body(t)
       /\ \A t \in Threads : get_status(t) => cb_lock = t
       /\ \A t \in Threads : pc'[t] \in {"permitted", "running"} => cb_lock' # t]_vars

\* ----------------------------------------------------------------------
\* C35: in every reachable state, under any interleaving of concurrent
\* calls: failures >= 0; state = CLOSED implies failures <
\* failure_threshold; state # HALF_OPEN implies successes = 0; and
\* successes < half_open_success_threshold.
C35_CounterInvariant ==
    /\ failures >= 0
    /\ state = CLOSED => failures < failure_threshold
    /\ state # HALF_OPEN => successes = 0
    /\ 0 <= successes /\ successes < half_open_success_threshold

\* the breaker is OPEN again after a probe failed that followed a counted
\* success, while another call is still under way
C35_Witness ==
    /\ state = OPEN
    /\ prevState = HALF_OPEN
    /\ hoFail.succ > 0
    /\ failures > failure_threshold
    /\ \E t \in Threads : pc[t] \in {"permitted", "running", "fn_ok", "fn_err"}

\* ----------------------------------------------------------------------
\* C36: once the breaker is OPEN the recovery window is measured from the
\* failure that opened it: while the state stays OPEN last_failure_time does
\* not change, so a call made more than recovery_timeout after the change to
\* OPEN is let through as a HALF_OPEN probe, whatever the calls that were
\* under way when the breaker opened report meanwhile.
C36_WindowFromOpening ==
    [][/\ state = OPEN /\ state' = OPEN => last_failure_time' = last_failure_time
       /\ \A t \in Threads :
             call(t) /\ state = OPEN /\ now - opened_at > recovery_timeout
                => state' = HALF_OPEN /\ pc'[t] = "permitted"]_vars

\* ----------------------------------------------------------------------
\* C37: a fetch adapter sends its request to a source only after
\* RateLimiter.acquire, or the wait_for that follows it, has returned True
\* for that source; when wait_for times out no request is sent.
C37_RequestOnlyWhenPermitted ==
    [][\A t \in LimiterCallers :
          fetch_request(t) => rl_ret = "true" /\ net'.permit = "true"]_vars

\* C38: wait_and_acquire(n, timeout) calls acquire(n) at least once before it
\* returns False, for every timeout >= 0 (0 included), and the attempt made
\* while the bucket holds n tokens returns True with the n tokens deducted: a
\* call made on a bucket that holds the tokens returns True.
C38_AttemptsOnce ==
    [][\A t \in Threads :
          /\ wait_test(t) /\ tpc'[t] = "idle" => attempted[t]
          /\ wait_poll(t) /\ Enough(w[t].n)
                => tpc'[t] = "idle" /\ granted' = granted + w[t].n]_vars

\* C39: when exactly one candidate passes the staleness filter and its value
\* is a number other than 0, the result is HIGH with that value, whatever the
\* candidate's source (one without a trust entry included) and however many
\* candidates were dropped as stale; nothing is raised.
C39_SingleSurvivorHigh ==
    called =>
        ((Len(valid) = 1 /\ ~valid[1].value.null /\ valid[1].value # Num(0))
            => /\ returned
               /\ result.dict.confidence = HIGH
               /\ result.dict.value = Num(2 * valid[1].value.num)
               /\ result.dict.diagnostics.candidate_count = 1)

\* C39 witness: two candidates were passed, one was dropped as stale, and the
\* survivor, from a source without a trust entry, is graded HIGH.
C39_Witness ==
    /\ returned
    /\ Len(candidates) = 2
    /\ Len(valid) = 1
    /\ ~valid[1].value.null
    /\ valid[1].value # Num(0)
    /\ valid[1].source = "unlisted"
    /\ result.dict.confidence = HIGH

\* the call went on to the trust scores (lines 408-424)
ScoresComputed ==
    /\ called
    /\ values(valid) # << >>
    /\ ~AtMost(variance(values(valid)), PRIMARY_TOLERANCE)

\* C40 as stated: the recency term adds between 0 and 0.3 to the trust of
\* every scored candidate, one fetched in the future of the clock included,
\* so the top source is never one whose trust is more than 0.3 below the
\* trust of another scored candidate.
C40_RecencyAtMostThreeTenths ==
    ScoresComputed =>
        /\ \A i \in 1..Len(scored(valid)) :
              LET c == scored(valid)[i]
              IN  /\ SOURCE_TRUST(c.source) * (48 * 3600) <= score(c)
                  /\ score(c) <= (SOURCE_TRUST(c.source) + 30) * (48 * 3600)
        /\ (returned /\ "top_source" \in DOMAIN result.dict.diagnostics)
              => \A i \in 1..Len(scored(valid)) :
                    SOURCE_TRUST(scored(valid)[i].source)
                       <= SOURCE_TRUST(result.dict.diagnostics.top_source) + 30

====
